---- MODULE Spec2Model ----
(***************************************************************************)
(* A model of shape-xml: the tokenizer-driven AST parser                   *)
(* (internal/parser), the byte-level fast parser (internal/fastparser),    *)
(* the renderer, the compiled-encoder Marshal path with its copy-on-write  *)
(* encoder cache, and the fast-path Unmarshal.                             *)
(*                                                                         *)
(* Texts are sequences of one-character strings.  Offsets are 0-based as   *)
(* in the Go code; At(data, i) is data[i] of the source.                   *)
(***************************************************************************)
EXTENDS Integers, Sequences, FiniteSets, TLC

\* ------------------------------------------------------------------------
\* Characters and byte helpers
\* ------------------------------------------------------------------------

\* The letters and digits that occur in the model's inputs (a subset of
\* [A-Za-z] and [0-9]).
Letters ==
    {"a", "b", "c", "d", "k", "l", "m", "r", "t", "v", "x", "o", "e", "h", "i", "n", "p",
     "g", "u", "A", "E", "O"}

Digits == {"1", "2", "3", "4", "9"}

\* space, tab, LF, CR in the source; the inputs of the model use the space
WhitespaceChars == {" "}

At(data, i) == data[i + 1]

\* data[from:to] of the source (0-based, to exclusive)
Slice(data, from, to) == IF to <= from THEN <<>> ELSE SubSeq(data, from + 1, to)

\* string(data[pos:pos+len(s)]) == s, with the bounds check
HasPrefixAt(data, pos, s) ==
    /\ pos + Len(s) <= Len(data)
    /\ \A i \in 1..Len(s) : data[pos + i] = s[i]

RECURSIVE Concat(_)
\* strings.Join(parts, "")
Concat(parts) == IF parts = <<>> THEN <<>> ELSE Head(parts) \o Concat(Tail(parts))

\* The literal strings of the grammar
sCommentOpen == <<"<", "!", "-", "-">>
sCommentClose == <<"-", "-", ">">>
sCDataOpen == <<"<", "!", "[", "C", "D", "A", "T", "A", "[">>
sCDataClose == <<"]", "]", ">">>
sPIOpen == <<"<", "?">>
sXml == <<"x", "m", "l">>
sXmlDecl == <<"<", "?", "x", "m", "l">>
sPIEnd == <<"?", ">">>
sEndTagOpen == <<"<", "/">>
sSelfClose == <<"/", ">">>

TextKey == <<"#", "t", "e", "x", "t">>
CDataKey == <<"#", "c", "d", "a", "t", "a">>

\* ------------------------------------------------------------------------
\* Tokenizer (internal/tokenizer)
\* ------------------------------------------------------------------------

NoTok == [ok |-> FALSE, kind |-> "none", val |-> <<>>, next |-> 0]

Tok(kind, val, next) == [ok |-> TRUE, kind |-> kind, val |-> val, next |-> next]

isNameStartByte(b) == b \in Letters \/ b = "_" \/ b = ":"

isNameByte(b) == isNameStartByte(b) \/ b \in Digits \/ b = "." \/ b = "-"

\* Bytes past ASCII: the two bytes of one two-byte character, lead byte first.
\* Either of them alone is not valid UTF-8.
LeadByte == "C3"

ContByte == "A9"

\* the character those two bytes encode, and the character (U+FFFD) that
\* decoding gives for a byte that is not valid UTF-8
TwoByteChar == "U+E9"

RuneError == "U+FFFD"

\* the character at pos and its width in bytes
DecodeRune(data, pos) ==
    IF At(data, pos) = LeadByte /\ pos + 1 < Len(data) /\ At(data, pos + 1) = ContByte
    THEN [r |-> TwoByteChar, w |-> 2]
    ELSE IF At(data, pos) \in {LeadByte, ContByte} THEN [r |-> RuneError, w |-> 1]
    ELSE [r |-> At(data, pos), w |-> 1]

\* []rune(string(value)): the characters of a byte slice
RECURSIVE RunesFrom(_, _)
RunesFrom(data, pos) ==
    IF pos >= Len(data) THEN <<>>
    ELSE <<DecodeRune(data, pos).r>> \o RunesFrom(data, pos + DecodeRune(data, pos).w)

ToRunes(value) == RunesFrom(value, 0)

\* Stream.PeekChar at byte offset pos: the next character, none at the end
PeekChar(data, pos) ==
    IF pos >= Len(data) THEN [ok |-> FALSE, r |-> "", w |-> 0]
    ELSE [ok |-> TRUE, r |-> DecodeRune(data, pos).r, w |-> DecodeRune(data, pos).w]

isNameStartChar(r) == r \in Letters \/ r = "_" \/ r = ":"

isNameChar(r) == isNameStartChar(r) \/ r \in Digits \/ r = "." \/ r = "-"

\* matchString: the position after s when s is at pos, -1 otherwise
matchString(data, pos, s) == IF HasPrefixAt(data, pos, s) THEN pos + Len(s) ELSE -1

RECURSIVE FindFrom(_, _, _)
\* first offset q >= pos at which s occurs in data, -1 when there is none
FindFrom(data, pos, s) ==
    IF pos >= Len(data) THEN -1
    ELSE IF HasPrefixAt(data, pos, s) THEN pos
    ELSE FindFrom(data, pos + 1, s)

\* The framework's whitespace matcher: a run of whitespace is one token
RECURSIVE SkipWsRun(_, _)
SkipWsRun(data, pos) ==
    IF pos < Len(data) /\ At(data, pos) \in WhitespaceChars
    THEN SkipWsRun(data, pos + 1) ELSE pos

WhitespaceMatcher(data, pos) ==
    IF pos < Len(data) /\ At(data, pos) \in WhitespaceChars
    THEN Tok("Whitespace", Slice(data, pos, SkipWsRun(data, pos)), SkipWsRun(data, pos))
    ELSE NoTok

\* CommentMatcher consumes the whole comment and yields one CommentStart token
CommentMatcher(data, pos) ==
    IF matchString(data, pos, sCommentOpen) = -1 THEN NoTok
    ELSE LET q == FindFrom(data, pos + 4, sCommentClose) IN
         IF q = -1 THEN NoTok
         ELSE Tok("CommentStart", sCommentOpen, q + 3)

\* CDataMatcher consumes only the opening "<![CDATA["
CDataMatcher(data, pos) ==
    IF matchString(data, pos, sCDataOpen) = -1 THEN NoTok
    ELSE Tok("CDataStart", sCDataOpen, pos + 9)

PIAndXMLDeclMatcher(data, pos) ==
    IF matchString(data, pos, sPIOpen) = -1 THEN NoTok
    ELSE IF matchString(data, pos + 2, sXml) # -1
         THEN Tok("XMLDeclStart", sXmlDecl, pos + 5)
         ELSE Tok("PIStart", sPIOpen, pos + 2)

StringMatcherFunc(kind, s, data, pos) ==
    IF matchString(data, pos, s) = -1 THEN NoTok
    ELSE Tok(kind, s, pos + Len(s))

EndTagOpenMatcher(data, pos) == StringMatcherFunc("EndTagOpen", sEndTagOpen, data, pos)

TagSelfCloseMatcher(data, pos) == StringMatcherFunc("TagSelfClose", sSelfClose, data, pos)

\* stringMatcherByte: from an opening quote to the next occurrence of it
stringMatcherByte(data, pos) ==
    IF pos >= Len(data) THEN NoTok
    ELSE IF At(data, pos) \notin {"\"", "'"} THEN NoTok
    ELSE LET q == FindFrom(data, pos + 1, <<At(data, pos)>>) IN
         IF q = -1 THEN NoTok
         ELSE Tok("String", Slice(data, pos, q + 1), q + 1)

RECURSIVE NameEnd(_, _)
NameEnd(data, pos) ==
    IF pos < Len(data) /\ isNameByte(At(data, pos)) THEN NameEnd(data, pos + 1) ELSE pos

nameMatcherByte(data, pos) ==
    IF pos >= Len(data) THEN NoTok
    ELSE IF ~isNameStartByte(At(data, pos)) THEN NoTok
    ELSE Tok("Name", ToRunes(Slice(data, pos, NameEnd(data, pos))), NameEnd(data, pos))

\* nameMatcherRune's loop: PeekChar, isNameChar, NextChar, append
RECURSIVE nameRuneLoop(_, _, _)
nameRuneLoop(data, pos, value) ==
    IF ~PeekChar(data, pos).ok \/ ~isNameChar(PeekChar(data, pos).r)
    THEN [val |-> value, next |-> pos]
    ELSE nameRuneLoop(data, pos + PeekChar(data, pos).w, Append(value, PeekChar(data, pos).r))

nameMatcherRune(data, pos) ==
    IF ~PeekChar(data, pos).ok THEN NoTok
    ELSE IF ~isNameStartChar(PeekChar(data, pos).r) THEN NoTok
    ELSE LET Made(l) == IF Len(l.val) = 0 THEN NoTok ELSE Tok("Name", l.val, l.next)
         IN Made(nameRuneLoop(data, pos, <<>>))

\* textMatcherByte with every byte of the slice taken for a character
textMatcherBytewise(data, pos) ==
    IF pos >= Len(data) THEN NoTok
    ELSE IF At(data, pos) = "<" THEN NoTok
    ELSE LET q == FindFrom(data, pos, <<"<">>)
             e == IF q = -1 THEN Len(data) ELSE q
         IN Tok("Text", Slice(data, pos, e), e)

\* textMatcherByte: everything up to the next "<" (or the end of input)
textMatcherByte(data, pos) ==
    IF pos >= Len(data) THEN NoTok
    ELSE IF At(data, pos) = "<" THEN NoTok
    ELSE LET q == FindFrom(data, pos, <<"<">>)
             e == IF q = -1 THEN Len(data) ELSE q
         IN Tok("Text", ToRunes(Slice(data, pos, e)), e)

\* textMatcherRune's loop: PeekChar, stop at "<", NextChar, append
RECURSIVE textRuneLoop(_, _, _)
textRuneLoop(data, pos, value) ==
    IF ~PeekChar(data, pos).ok \/ PeekChar(data, pos).r = "<"
    THEN [val |-> value, next |-> pos]
    ELSE textRuneLoop(data, pos + PeekChar(data, pos).w, Append(value, PeekChar(data, pos).r))

textMatcherRune(data, pos) ==
    IF ~PeekChar(data, pos).ok THEN NoTok
    ELSE IF PeekChar(data, pos).r = "<" THEN NoTok
    ELSE LET Made(l) == IF Len(l.val) = 0 THEN NoTok ELSE Tok("Text", l.val, l.next)
         IN Made(textRuneLoop(data, pos, <<>>))

\* The matchers in the order NewTokenizer registers them; the framework
\* tries its whitespace matcher first.
Matchers(data, pos) ==
    << WhitespaceMatcher(data, pos),
       CommentMatcher(data, pos),
       CDataMatcher(data, pos),
       PIAndXMLDeclMatcher(data, pos),
       StringMatcherFunc("PIEnd", sPIEnd, data, pos),
       EndTagOpenMatcher(data, pos),
       TagSelfCloseMatcher(data, pos),
       StringMatcherFunc("TagOpen", <<"<">>, data, pos),
       StringMatcherFunc("TagClose", <<">">>, data, pos),
       StringMatcherFunc("Equals", <<"=">>, data, pos),
       stringMatcherByte(data, pos),
       nameMatcherByte(data, pos),
       textMatcherByte(data, pos) >>

\* the first matcher that yields a token wins
FirstMatch(ms) ==
    LET hits == {i \in 1..Len(ms) : ms[i].ok}
    IN IF hits = {} THEN NoTok
       ELSE ms[CHOOSE i \in hits : \A j \in hits : i <= j]

\* NextToken: none at the end of input or when no matcher applies
NextToken(data, pos) ==
    IF pos >= Len(data) THEN NoTok ELSE FirstMatch(Matchers(data, pos))

RECURSIVE TokensFrom(_, _)
\* the tokens successive NextToken calls return from offset pos on.  The
\* parser only ever pulls tokens with NextToken, so the n-th advance of the
\* parser receives the n-th element of this sequence.
TokensFrom(data, pos) ==
    LET Rest(t) == IF t.ok
                   THEN <<[kind |-> t.kind, val |-> t.val]>> \o TokensFrom(data, t.next)
                   ELSE <<>>
    IN Rest(NextToken(data, pos))

\* ------------------------------------------------------------------------
\* Tree nodes (ast.ObjectNode, ast.LiteralNode, ast.ArrayDataNode); positions
\* are informational only and are left out
\* ------------------------------------------------------------------------

EmptyProps == [k \in {} |-> 0]

NewObjectNode(props) == [t |-> "obj", props |-> props, v |-> <<>>, elems |-> <<>>]

NewLiteralNode(v) == [t |-> "lit", props |-> EmptyProps, v |-> v, elems |-> <<>>]

NewArrayDataNode(elems) == [t |-> "arr", props |-> EmptyProps, v |-> <<>>, elems |-> elems]

NilNode == [t |-> "nil", props |-> EmptyProps, v |-> <<>>, elems |-> <<>>]

\* properties[k] = v
Put(props, k, v) == [x \in (DOMAIN props) \cup {k} |-> IF x = k THEN v ELSE props[x]]

RECURSIVE TrimLeft(_)
TrimLeft(s) == IF s # <<>> /\ Head(s) \in WhitespaceChars THEN TrimLeft(Tail(s)) ELSE s

RECURSIVE TrimRight(_)
TrimRight(s) ==
    IF s # <<>> /\ s[Len(s)] \in WhitespaceChars THEN TrimRight(SubSeq(s, 1, Len(s) - 1)) ELSE s

\* strings.TrimSpace
TrimSpace(s) == TrimRight(TrimLeft(s))

RECURSIVE ReplaceAll(_, _, _)
\* strings.ReplaceAll(s, old, new), old non-empty: leftmost, non-overlapping
ReplaceAll(s, old, new) ==
    IF s = <<>> THEN <<>>
    ELSE IF HasPrefixAt(s, 0, old)
         THEN new \o ReplaceAll(SubSeq(s, Len(old) + 1, Len(s)), old, new)
         ELSE <<Head(s)>> \o ReplaceAll(Tail(s), old, new)

eLt == <<"&", "l", "t", ";">>
eGt == <<"&", "g", "t", ";">>
eAmp == <<"&", "a", "m", "p", ";">>
eApos == <<"&", "a", "p", "o", "s", ";">>
eQuot == <<"&", "q", "u", "o", "t", ";">>
eNum34 == <<"&", "#", "3", "4", ";">>
eNum39 == <<"&", "#", "3", "9", ";">>

\* Parser.unquoteString: strip one pair of surrounding quotes, then replace
\* the five named entities, in this order
unquoteString(s) ==
    LET q == IF Len(s) >= 2 /\ ( (s[1] = "\"" /\ s[Len(s)] = "\"")
                               \/ (s[1] = "'" /\ s[Len(s)] = "'") )
             THEN SubSeq(s, 2, Len(s) - 1) ELSE s
    IN ReplaceAll(ReplaceAll(ReplaceAll(ReplaceAll(ReplaceAll(q,
           eLt, <<"<">>), eGt, <<">">>), eAmp, <<"&">>), eApos, <<"'">>), eQuot, <<"\"">>)

\* ------------------------------------------------------------------------
\* AST parser (internal/parser).  The parser state is the stream offset, the
\* current token and hasToken; advance keeps the previous token in current
\* when the tokenizer has no more tokens.
\* ------------------------------------------------------------------------

NilTok == [kind |-> "nil", val |-> <<>>]

\* newParserWithStream before its first advance; pos counts the tokens
\* pulled from the tokenizer
NewParserState == [pos |-> 0, cur |-> NilTok, has |-> FALSE]

advance(toks, p) ==
    IF p.pos < Len(toks)
    THEN [pos |-> p.pos + 1, cur |-> toks[p.pos + 1], has |-> TRUE]
    ELSE [p EXCEPT !.has = FALSE]

RECURSIVE peek(_, _)
\* the parser state after peek has skipped whitespace tokens; the token
\* peek returns is the cur of that state
peek(toks, p) ==
    IF p.has /\ p.cur.kind = "Whitespace" THEN peek(toks, advance(toks, p)) ELSE p

\* a result of the parser: status is "ok", "error" or "hang" (a loop of the
\* source that never exits)
PRes(status, err, node, p) == [status |-> status, err |-> err, node |-> node, p |-> p]

NoErr == [msg |-> "", a |-> <<>>, b |-> <<>>]

Err(msg) == [msg |-> msg, a |-> <<>>, b |-> <<>>]

expect(toks, p, kind) ==
    LET Peeked(q) ==
            IF q.cur.kind = "nil" THEN PRes("error", Err("expected token, got EOF"), NilNode, q)
            ELSE IF q.cur.kind # kind THEN PRes("error", Err("expected token"), NilNode, q)
            ELSE PRes("ok", NoErr, NilNode, advance(toks, q))
    IN Peeked(peek(toks, p))

RECURSIVE parser_skipCommentLoop(_, _)
parser_skipCommentLoop(toks, p) ==
    LET Peeked(q) ==
            IF q.cur.kind = "nil" \/ ~q.has THEN q
            ELSE IF q.cur.kind = "CommentEnd" THEN advance(toks, q)
            ELSE parser_skipCommentLoop(toks, advance(toks, q))
    IN Peeked(peek(toks, p))

\* Parser.skipComment: consume the comment token, then every token up to a
\* CommentEnd token or the end of input
parser_skipComment(toks, p) ==
    LET Peeked(q) ==
            IF q.cur.kind = "nil" \/ q.cur.kind # "CommentStart" THEN q
            ELSE parser_skipCommentLoop(toks, advance(toks, q))
    IN Peeked(peek(toks, p))

RECURSIVE parser_skipComments(_, _)
\* Parser.skipComments: [hang |-> the loop never exits, p |-> state at exit].
\* skipComment leaves the state unchanged exactly when the tokenizer is
\* exhausted with a CommentStart token left in current: then the loop
\* condition stays true for ever.
parser_skipComments(toks, p) ==
    LET Skipped(q, n) ==
            IF n = q THEN [hang |-> TRUE, p |-> q] ELSE parser_skipComments(toks, n)
        Peeked(q) ==
            IF q.cur.kind # "nil" /\ q.cur.kind = "CommentStart"
            THEN Skipped(q, parser_skipComment(toks, q))
            ELSE [hang |-> FALSE, p |-> q]
    IN Peeked(peek(toks, p))

RECURSIVE parser_skipCommentsAndWhitespace(_, _)
parser_skipCommentsAndWhitespace(toks, p) ==
    LET Peeked(q) ==
            IF q.cur.kind = "nil" \/ ~q.has THEN q
            ELSE IF q.cur.kind = "CommentStart"
                 THEN parser_skipCommentsAndWhitespace(toks, parser_skipComment(toks, q))
            ELSE IF q.cur.kind = "Whitespace"
                 THEN parser_skipCommentsAndWhitespace(toks, advance(toks, q))
            ELSE q
    IN Peeked(peek(toks, p))

RECURSIVE parser_skipXMLDeclLoop(_, _)
parser_skipXMLDeclLoop(toks, p) ==
    LET Peeked(q) ==
            IF q.cur.kind = "nil" \/ ~q.has
            THEN PRes("error", Err("unterminated XML declaration"), NilNode, q)
            ELSE IF q.cur.kind = "PIEnd" THEN PRes("ok", NoErr, NilNode, advance(toks, q))
            ELSE parser_skipXMLDeclLoop(toks, advance(toks, q))
    IN Peeked(peek(toks, p))

parser_skipXMLDeclaration(toks, p) ==
    LET Expected(e) == IF e.status # "ok" THEN e ELSE parser_skipXMLDeclLoop(toks, e.p)
    IN Expected(expect(toks, p, "XMLDeclStart"))

\* the outcome of Parser.parseAttribute
ARes(status, err, name, value, p) ==
    [status |-> status, err |-> err, name |-> name, value |-> value, p |-> p]

\* Parser.parseAttribute: name token, "=", string token
parser_parseAttribute(toks, p) ==
    LET ValueTok(q, s) ==
            IF s.cur.kind # "String"
            THEN ARes("error", Err("expected string value for attribute"), q.cur.val, NilNode, s)
            ELSE ARes("ok", NoErr, q.cur.val,
                      NewLiteralNode(unquoteString(s.cur.val)), advance(toks, s))
        EqualsTok(q, e) ==
            IF e.status # "ok"
            THEN ARes("error", Err("expected = after attribute name"), q.cur.val, NilNode, e.p)
            ELSE ValueTok(q, peek(toks, e.p))
        NameTok(q) ==
            IF q.cur.kind # "Name"
            THEN ARes("error", Err("expected attribute name"), <<>>, NilNode, q)
            ELSE EqualsTok(q, expect(toks, advance(toks, q), "Equals"))
    IN NameTok(peek(toks, p))

\* the outcome of a loop that fills the properties of an element
CRes(status, err, props, p) == [status |-> status, err |-> err, props |-> props, p |-> p]

RECURSIVE parser_parseAttributes(_, _, _)
\* the attribute loop of Parser.parseElement
parser_parseAttributes(toks, p, props) ==
    LET Parsed(a) ==
            IF a.status # "ok" THEN CRes("error", a.err, props, a.p)
            ELSE parser_parseAttributes(toks, a.p, Put(props, <<"@">> \o a.name, a.value))
        Peeked(q) ==
            IF q.cur.kind # "nil" /\ q.cur.kind = "Name"
            THEN Parsed(parser_parseAttribute(toks, q))
            ELSE CRes("ok", NoErr, props, q)
    IN Peeked(peek(toks, p))

\* the key under which parseContent stores a child element
childKey == <<"c", "h", "i", "l", "d">>

\* the trimmed text stored under #text when it is not blank
PutText(props, trimmed) ==
    IF trimmed # <<>> THEN Put(props, TextKey, NewLiteralNode(trimmed)) ELSE props

\* the text accumulated so far, stored under #text when non-blank
FlushText(props, textParts) ==
    IF Len(textParts) > 0 THEN PutText(props, TrimSpace(Concat(textParts))) ELSE props

FlushCData(props, cdataParts) ==
    IF Len(cdataParts) > 0
    THEN Put(props, CDataKey, NewLiteralNode(Concat(cdataParts)))
    ELSE props

\* a child stored under key: first occurrence, promotion to an Array, append
StoreChild(props, key, childNode) ==
    IF key \in DOMAIN props
    THEN IF props[key].t = "arr"
         THEN Put(props, key, NewArrayDataNode(Append(props[key].elems, childNode)))
         ELSE Put(props, key, NewArrayDataNode(<<props[key], childNode>>))
    ELSE Put(props, key, childNode)

RECURSIVE parser_parseElement(_, _)
RECURSIVE parser_parseContent(_, _, _, _, _)

\* Parser.parseContent
parser_parseContent(toks, p, props, textParts, cdataParts) ==
    LET AfterCData(c) ==
            \* "<![CDATA[" is consumed, then one more token
            IF c.cur.kind = "nil" \/ ~c.has
            THEN CRes("error", Err("unterminated CDATA section"), props, c)
            ELSE parser_parseContent(toks, advance(toks, c), props, textParts, cdataParts)
        AfterChild(props1, child) ==
            IF child.status # "ok" THEN CRes("error", child.err, props1, child.p)
            ELSE parser_parseContent(toks, child.p, StoreChild(props1, childKey, child.node),
                                     <<>>, cdataParts)
        Peeked(q) ==
            IF q.cur.kind = "nil" \/ ~q.has THEN CRes("ok", NoErr, props, q)
            ELSE CASE q.cur.kind = "EndTagOpen" ->
                        CRes("ok", NoErr, FlushCData(FlushText(props, textParts), cdataParts), q)
                   [] q.cur.kind \in {"Text", "Name"} ->
                        parser_parseContent(toks, advance(toks, q), props,
                                            Append(textParts, q.cur.val), cdataParts)
                   [] q.cur.kind = "CDataStart" ->
                        AfterCData(peek(toks, advance(toks, q)))
                   [] q.cur.kind = "TagOpen" ->
                        AfterChild(FlushText(props, textParts), parser_parseElement(toks, q))
                   [] q.cur.kind = "CommentStart" ->
                        parser_parseContent(toks, parser_skipComment(toks, q), props,
                                            textParts, cdataParts)
                   [] OTHER ->
                        CRes("error", Err("unexpected token in element content"), props, q)
    IN Peeked(peek(toks, p))

\* Parser.parseElement; the steps read from the last LET definition upward
parser_parseElement(toks, p) ==
    LET ClosingGt(c, e4) ==
            IF e4.status # "ok" THEN PRes("error", Err("expected > in closing tag"), NilNode, e4.p)
            ELSE PRes("ok", NoErr, NewObjectNode(c.props), e4.p)
        ClosingName(elementName, c, cn) ==
            IF cn.cur.kind # "Name"
            THEN PRes("error", Err("expected element name in closing tag"), NilNode, cn)
            ELSE IF cn.cur.val # elementName
                 THEN PRes("error", [msg |-> "mismatched tags", a |-> elementName, b |-> cn.cur.val],
                           NilNode, advance(toks, cn))
            ELSE ClosingGt(c, expect(toks, advance(toks, cn), "TagClose"))
        ClosingOpen(elementName, c, e3) ==
            IF e3.status # "ok"
            THEN PRes("error", Err("expected closing tag for element"), NilNode, e3.p)
            ELSE ClosingName(elementName, c, peek(toks, e3.p))
        Content(elementName, c) ==
            IF c.status # "ok" THEN PRes("error", c.err, NilNode, c.p)
            ELSE ClosingOpen(elementName, c, expect(toks, c.p, "EndTagOpen"))
        OpenGt(elementName, at, e2) ==
            IF e2.status # "ok" THEN e2
            ELSE Content(elementName, parser_parseContent(toks, e2.p, at.props, <<>>, <<>>))
        TagEnd(elementName, at, token) ==
            IF token.cur.kind = "nil"
            THEN PRes("error", Err("unexpected end of input in element"), NilNode, token)
            ELSE IF token.cur.kind = "TagSelfClose"
                 THEN PRes("ok", NoErr, NewObjectNode(at.props), advance(toks, token))
            ELSE OpenGt(elementName, at, expect(toks, token, "TagClose"))
        Attributes(elementName, at) ==
            IF at.status # "ok" THEN PRes("error", at.err, NilNode, at.p)
            ELSE TagEnd(elementName, at, peek(toks, at.p))
        ElementName(n) ==
            IF n.cur.kind # "Name" THEN PRes("error", Err("expected element name"), NilNode, n)
            ELSE Attributes(n.cur.val, parser_parseAttributes(toks, advance(toks, n), EmptyProps))
        Opened(e1) ==
            IF e1.status # "ok" THEN e1 ELSE ElementName(peek(toks, e1.p))
    IN Opened(expect(toks, p, "TagOpen"))

\* Parser.Parse on the parser NewParser makes; the steps read from the last
\* LET definition upward
parser_Parse(toks) ==
    LET AtEnd(el, token) ==
            IF token.cur.kind # "nil" /\ token.has /\ token.cur.kind # "EOF"
            THEN PRes("error", Err("unexpected content after root element"), NilNode, token)
            ELSE PRes("ok", NoErr, el.node, token)
        Root(el) ==
            IF el.status # "ok" THEN PRes("error", el.err, NilNode, el.p)
            ELSE AtEnd(el, peek(toks, parser_skipCommentsAndWhitespace(toks, el.p)))
        Comments(sc) ==
            IF sc.hang THEN PRes("hang", NoErr, NilNode, sc.p)
            ELSE Root(parser_parseElement(toks, sc.p))
        Declaration(d) ==
            IF d.status # "ok" THEN PRes("error", d.err, NilNode, d.p)
            ELSE Comments(parser_skipComments(toks, d.p))
        First(k0) ==
            Declaration(IF k0.cur.kind # "nil" /\ k0.cur.kind = "XMLDeclStart"
                        THEN parser_skipXMLDeclaration(toks, k0)
                        ELSE PRes("ok", NoErr, NilNode, k0))
    IN First(peek(toks, advance(toks, NewParserState)))

\* xml.Parse: a tokenizer over the input, then Parser.Parse
Parse(input) == parser_Parse(TokensFrom(input, 0))

\* ------------------------------------------------------------------------
\* Fast parser (internal/fastparser): a cursor pos over data, 0 <= pos.
\* Native values: string, map[string]interface{}, []interface{}.
\* ------------------------------------------------------------------------

NStr(s) == [t |-> "str", s |-> s, m |-> EmptyProps, elems |-> <<>>]

NMap(m) == [t |-> "map", s |-> <<>>, m |-> m, elems |-> <<>>]

NSlice(elems) == [t |-> "slice", s |-> <<>>, m |-> EmptyProps, elems |-> elems]

NNil == [t |-> "nil", s |-> <<>>, m |-> EmptyProps, elems |-> <<>>]

\* a result of the fast parser
FRes(ok, err, val, pos) == [ok |-> ok, err |-> err, val |-> val, pos |-> pos]

isWhitespace(c) == c \in WhitespaceChars

RECURSIVE fast_skipWhitespace(_, _)
fast_skipWhitespace(data, pos) ==
    IF pos < Len(data) /\ isWhitespace(At(data, pos))
    THEN fast_skipWhitespace(data, pos + 1) ELSE pos

fast_peekString(data, pos, s) == HasPrefixAt(data, pos, s)

fast_peek(data, pos) == IF pos >= Len(data) THEN "NUL" ELSE At(data, pos)

\* consume(expected): the new position, or -1
fast_consume(data, pos, expected) ==
    IF pos >= Len(data) \/ At(data, pos) # expected THEN -1 ELSE pos + 1

fast_isNameStartChar(c) == c \in Letters \/ c = "_" \/ c = ":"

fast_isNameChar(c) == fast_isNameStartChar(c) \/ c \in Digits \/ c = "." \/ c = "-"

RECURSIVE fast_readNameLoop(_, _)
fast_readNameLoop(data, pos) ==
    IF pos < Len(data) /\ fast_isNameChar(At(data, pos))
    THEN fast_readNameLoop(data, pos + 1) ELSE pos

\* readName: [name, pos]; the name is empty (and pos unchanged) when no name
\* starts at pos
fast_readName(data, pos) ==
    IF pos >= Len(data) THEN [name |-> <<>>, pos |-> pos]
    ELSE IF ~fast_isNameStartChar(At(data, pos)) THEN [name |-> <<>>, pos |-> pos]
    ELSE LET e == fast_readNameLoop(data, pos + 1) IN
         [name |-> Slice(data, pos, e), pos |-> e]

RECURSIVE fast_skipXMLDeclLoop(_, _)
fast_skipXMLDeclLoop(data, pos) ==
    IF pos < Len(data) - 1
    THEN IF At(data, pos) = "?" /\ At(data, pos + 1) = ">"
         THEN FRes(TRUE, NoErr, NNil, pos + 2)
         ELSE fast_skipXMLDeclLoop(data, pos + 1)
    ELSE FRes(FALSE, Err("unterminated XML declaration"), NNil, pos)

fast_skipXMLDeclaration(data, pos) ==
    IF ~fast_peekString(data, pos, sXmlDecl) THEN FRes(TRUE, NoErr, NNil, pos)
    ELSE fast_skipXMLDeclLoop(data, pos + 5)

RECURSIVE fast_skipCommentLoop(_, _)
fast_skipCommentLoop(data, pos) ==
    IF pos < Len(data) - 2
    THEN IF At(data, pos) = "-" /\ At(data, pos + 1) = "-" /\ At(data, pos + 2) = ">"
         THEN FRes(TRUE, NoErr, NNil, pos + 3)
         ELSE fast_skipCommentLoop(data, pos + 1)
    ELSE FRes(FALSE, Err("unterminated comment"), NNil, pos)

\* skipComment: on failure the cursor stays where the search stopped
fast_skipComment(data, pos) ==
    IF ~fast_peekString(data, pos, sCommentOpen) THEN FRes(TRUE, NoErr, NNil, pos)
    ELSE fast_skipCommentLoop(data, pos + 4)

RECURSIVE fast_skipComments(_, _)
\* skipComments ignores skipComment's error
fast_skipComments(data, pos) ==
    IF fast_peekString(data, pos, sCommentOpen)
    THEN fast_skipComments(data, fast_skipWhitespace(data, fast_skipComment(data, pos).pos))
    ELSE pos

RECURSIVE fast_skipCommentsAndWhitespace(_, _)
\* skipCommentsAndWhitespace ignores skipComment's error
fast_skipCommentsAndWhitespace(data, pos) ==
    IF pos >= Len(data) THEN pos
    ELSE IF fast_peekString(data, pos, sCommentOpen)
         THEN fast_skipCommentsAndWhitespace(data, fast_skipComment(data, pos).pos)
    ELSE IF isWhitespace(At(data, pos))
         THEN fast_skipCommentsAndWhitespace(data, pos + 1)
    ELSE pos

RECURSIVE fast_parseTextLoop(_, _)
fast_parseTextLoop(data, pos) ==
    IF pos < Len(data) /\ At(data, pos) # "<" THEN fast_parseTextLoop(data, pos + 1) ELSE pos

\* parseText: the raw bytes up to the next "<"
fast_parseText(data, pos) ==
    LET e == fast_parseTextLoop(data, pos) IN
    [ok |-> TRUE, err |-> NoErr, s |-> Slice(data, pos, e), pos |-> e]

RECURSIVE fast_parseCDataLoop(_, _, _)
fast_parseCDataLoop(data, start, pos) ==
    IF pos < Len(data) - 2
    THEN IF At(data, pos) = "]" /\ At(data, pos + 1) = "]" /\ At(data, pos + 2) = ">"
         THEN [ok |-> TRUE, err |-> NoErr, s |-> Slice(data, start, pos), pos |-> pos + 3]
         ELSE fast_parseCDataLoop(data, start, pos + 1)
    ELSE [ok |-> FALSE, err |-> Err("unterminated CDATA section"), s |-> <<>>, pos |-> pos]

fast_parseCDataContent(data, pos) ==
    IF ~fast_peekString(data, pos, sCDataOpen)
    THEN [ok |-> FALSE, err |-> Err("expected CDATA section"), s |-> <<>>, pos |-> pos]
    ELSE fast_parseCDataLoop(data, pos + 9, pos + 9)

RECURSIVE fast_parseStringWithEscapes(_, _, _, _)
\* parseStringWithEscapes, with buf the bytes decoded so far
fast_parseStringWithEscapes(data, pos, quote, buf) ==
    IF pos >= Len(data)
    THEN [ok |-> FALSE, err |-> Err("unterminated string"), s |-> <<>>, pos |-> pos]
    ELSE LET c == At(data, pos) IN
         IF c = quote THEN [ok |-> TRUE, err |-> NoErr, s |-> buf, pos |-> pos + 1]
         ELSE IF c = "\\"
              THEN IF pos + 1 >= Len(data)
                   THEN [ok |-> FALSE, err |-> Err("unexpected end of string after backslash"),
                         s |-> <<>>, pos |-> pos + 1]
                   ELSE LET escaped == At(data, pos + 1)
                            out == CASE escaped \in {"\\", "\"", "'"} -> <<escaped>>
                                     [] escaped = "n" -> <<"\n">>
                                     [] escaped = "t" -> <<"\t">>
                                     [] escaped = "r" -> <<"\r">>
                                     [] OTHER -> <<"\\", escaped>>
                        IN fast_parseStringWithEscapes(data, pos + 2, quote, buf \o out)
              ELSE fast_parseStringWithEscapes(data, pos + 1, quote, Append(buf, c))

RECURSIVE fast_parseStringLoop(_, _, _, _)
fast_parseStringLoop(data, start, pos, quote) ==
    IF pos >= Len(data)
    THEN [ok |-> FALSE, err |-> Err("unterminated string"), s |-> <<>>, pos |-> pos]
    ELSE IF At(data, pos) = quote
         THEN [ok |-> TRUE, err |-> NoErr, s |-> Slice(data, start, pos), pos |-> pos + 1]
    ELSE IF At(data, pos) = "\\"
         THEN fast_parseStringWithEscapes(data, pos, quote, Slice(data, start, pos))
    ELSE fast_parseStringLoop(data, start, pos + 1, quote)

\* parseString: the bytes between the quotes, backslash escapes decoded
fast_parseString(data, pos) ==
    IF pos >= Len(data)
    THEN [ok |-> FALSE, err |-> Err("expected string"), s |-> <<>>, pos |-> pos]
    ELSE IF At(data, pos) \notin {"\"", "'"}
         THEN [ok |-> FALSE, err |-> Err("expected quote"), s |-> <<>>, pos |-> pos]
    ELSE fast_parseStringLoop(data, pos + 1, pos + 1, At(data, pos))

\* the outcome of parseAttribute
FARes(ok, err, name, value, pos) ==
    [ok |-> ok, err |-> err, name |-> name, value |-> value, pos |-> pos]

\* parseAttribute: name, "=", quoted value, whitespace allowed around "="
fast_parseAttribute(data, pos) ==
    LET Value(n, v) ==
            IF ~v.ok THEN FARes(FALSE, Err("invalid value for attribute"), n.name, <<>>, v.pos)
            ELSE FARes(TRUE, NoErr, n.name, v.s, v.pos)
        Equals(n, ws, e) ==
            IF e = -1
            THEN FARes(FALSE, Err("expected '=' after attribute name"), n.name, <<>>, ws)
            ELSE Value(n, fast_parseString(data, fast_skipWhitespace(data, e)))
        AfterName(n, ws) == Equals(n, ws, fast_consume(data, ws, "="))
        Name(n) ==
            IF n.name = <<>>
            THEN FARes(FALSE, Err("expected attribute name"), <<>>, <<>>, n.pos)
            ELSE AfterName(n, fast_skipWhitespace(data, n.pos))
    IN Name(fast_readName(data, pos))

\* the outcome of the attribute loop
FLRes(ok, err, selfClosed, result, pos) ==
    [ok |-> ok, err |-> err, selfClosed |-> selfClosed, result |-> result, pos |-> pos]

RECURSIVE fast_parseAttributes(_, _, _)
\* the attribute loop of parseElement
fast_parseAttributes(data, pos0, result) ==
    LET Parsed(a) ==
            IF ~a.ok THEN FLRes(FALSE, a.err, FALSE, result, a.pos)
            ELSE fast_parseAttributes(data, a.pos, Put(result, <<"@">> \o a.name, NStr(a.value)))
        Skipped(pos) ==
            IF pos >= Len(data)
            THEN FLRes(FALSE, Err("unexpected end of input in element"), FALSE, result, pos)
            ELSE IF fast_peekString(data, pos, sSelfClose)
                 THEN FLRes(TRUE, NoErr, TRUE, result, pos + 2)
            ELSE IF fast_peek(data, pos) = ">"
                 THEN FLRes(TRUE, NoErr, FALSE, result, pos + 1)
            ELSE Parsed(fast_parseAttribute(data, pos))
    IN Skipped(fast_skipWhitespace(data, pos0))

\* a flush that stores #text even when no text was read
FlushTextAlways(result, textParts) ==
    Put(result, TextKey, NStr(TrimSpace(Concat(textParts))))

\* the trimmed text stored under #text when it is not blank
fast_PutText(result, trimmed) ==
    IF trimmed # <<>> THEN Put(result, TextKey, NStr(trimmed)) ELSE result

\* result["#text"] = trimmed text, when the accumulated text is not blank
fast_FlushText(result, textParts) ==
    IF Len(textParts) > 0 THEN fast_PutText(result, TrimSpace(Concat(textParts))) ELSE result

fast_FlushCData(result, cdataParts) ==
    IF Len(cdataParts) > 0 THEN Put(result, CDataKey, NStr(Concat(cdataParts))) ELSE result

\* a store that keeps the last child of a name only
StoreLast(result, childName, childNode) == Put(result, childName, childNode)

\* a child stored under its tag name: first occurrence, promotion, append
fast_StoreChild(result, childName, childNode) ==
    IF childName \in DOMAIN result
    THEN IF result[childName].t = "slice"
         THEN Put(result, childName, NSlice(Append(result[childName].elems, childNode)))
         ELSE Put(result, childName, NSlice(<<result[childName], childNode>>))
    ELSE Put(result, childName, childNode)

RECURSIVE fast_parseElement(_, _)
RECURSIVE fast_parseContent(_, _, _, _, _, _)

\* the content loop of parseElement
fast_parseContent(data, pos0, elementName, result, textParts, cdataParts) ==
    LET ClosingGt(ws, g) ==
            IF g = -1 THEN FRes(FALSE, Err("expected '>' in closing tag"), NNil, ws)
            ELSE FRes(TRUE, NoErr,
                      NMap(fast_FlushCData(fast_FlushText(result, textParts), cdataParts)), g)
        AfterClosingName(ws) == ClosingGt(ws, fast_consume(data, ws, ">"))
        ClosingName(cn) ==
            IF cn.name # elementName
            THEN FRes(FALSE, [msg |-> "mismatched tags", a |-> elementName, b |-> cn.name],
                      NNil, cn.pos)
            ELSE AfterClosingName(fast_skipWhitespace(data, cn.pos))
        Comment(c) ==
            IF ~c.ok THEN c
            ELSE fast_parseContent(data, c.pos, elementName, result, textParts, cdataParts)
        CData(c) ==
            IF ~c.ok THEN FRes(FALSE, c.err, NNil, c.pos)
            ELSE fast_parseContent(data, c.pos, elementName, result, textParts,
                                   Append(cdataParts, c.s))
        Child(result1, childName, child) ==
            IF ~child.ok THEN FRes(FALSE, child.err, NNil, child.pos)
            ELSE fast_parseContent(data, child.pos, elementName,
                                   fast_StoreChild(result1, childName, child.val),
                                   <<>>, cdataParts)
        ChildName(pos, result1, childName) ==
            IF childName = <<>> THEN FRes(FALSE, Err("expected child element name"), NNil, pos)
            ELSE Child(result1, childName, fast_parseElement(data, pos))
        Text(t) ==
            fast_parseContent(data, t.pos, elementName, result,
                              IF t.s # <<>> THEN Append(textParts, t.s) ELSE textParts,
                              cdataParts)
        Skipped(pos) ==
            IF pos >= Len(data)
            THEN FRes(FALSE, Err("unexpected end of input, expected closing tag"), NNil, pos)
            ELSE IF fast_peekString(data, pos, sEndTagOpen)
                 THEN ClosingName(fast_readName(data, pos + 2))
            ELSE IF fast_peekString(data, pos, sCommentOpen)
                 THEN Comment(fast_skipComment(data, pos))
            ELSE IF fast_peekString(data, pos, sCDataOpen)
                 THEN CData(fast_parseCDataContent(data, pos))
            ELSE IF fast_peek(data, pos) = "<"
                 THEN ChildName(pos, fast_FlushText(result, textParts),
                                fast_readName(data, pos + 1).name)
            ELSE Text(fast_parseText(data, pos))
    IN Skipped(fast_skipWhitespace(data, pos0))

\* fastparser.Parser.parseElement
fast_parseElement(data, pos) ==
    LET Attributes(n, at) ==
            IF ~at.ok THEN FRes(FALSE, at.err, NNil, at.pos)
            ELSE IF at.selfClosed THEN FRes(TRUE, NoErr, NMap(at.result), at.pos)
            ELSE fast_parseContent(data, at.pos, n.name, at.result, <<>>, <<>>)
        Name(n) ==
            IF n.name = <<>> THEN FRes(FALSE, Err("expected element name"), NNil, n.pos)
            ELSE Attributes(n, fast_parseAttributes(data, n.pos, EmptyProps))
        Opened(lt) ==
            IF lt = -1 THEN FRes(FALSE, Err("expected '<'"), NNil, pos)
            ELSE Name(fast_readName(data, lt))
    IN Opened(fast_consume(data, pos, "<"))

\* fastparser.Parser.Parse
fast_Parse(data) ==
    LET AtEnd(el, e) ==
            IF e < Len(data)
            THEN FRes(FALSE, Err("unexpected content after root element"), NNil, e)
            ELSE FRes(TRUE, NoErr, el.val, e)
        Root(el) ==
            IF ~el.ok THEN FRes(FALSE, el.err, NNil, el.pos)
            ELSE AtEnd(el, fast_skipCommentsAndWhitespace(data, el.pos))
        Declaration(d) ==
            IF ~d.ok THEN d
            ELSE Root(fast_parseElement(data,
                          fast_skipComments(data, fast_skipWhitespace(data, d.pos))))
        Start(p0) ==
            IF p0 >= Len(data) THEN FRes(FALSE, Err("unexpected end of XML input"), NNil, p0)
            ELSE Declaration(IF fast_peekString(data, p0, sXmlDecl)
                             THEN fast_skipXMLDeclaration(data, p0)
                             ELSE FRes(TRUE, NoErr, NNil, p0))
    IN Start(fast_skipWhitespace(data, 0))

\* xml.Validate: the fast parser's verdict, the value discarded
Validate(input) == fast_Parse(input).ok

\* ------------------------------------------------------------------------
\* The fast parser's cursor, read by read: the same functions, returning the
\* cursor and the highest index of data they read instead of the value.
\* ------------------------------------------------------------------------

\* data[i]; an index outside the slice is a run-time panic
Byte(data, i) == IF i >= 0 /\ i < Len(data) THEN data[i + 1] ELSE "PANIC"

\* the highest index read, after a read of index i
Rd(hi, i) == IF i > hi THEN i ELSE hi

\* the outcome of a scan: success, the cursor, the highest index read
SRes(ok, pos, hi) == [ok |-> ok, pos |-> pos, hi |-> hi]

RECURSIVE scan_skipWhitespace(_, _, _)
scan_skipWhitespace(data, pos, hi) ==
    IF pos < Len(data)
    THEN IF isWhitespace(Byte(data, pos))
         THEN scan_skipWhitespace(data, pos + 1, Rd(hi, pos))
         ELSE SRes(TRUE, pos, Rd(hi, pos))
    ELSE SRes(TRUE, pos, hi)

\* peekString(s): the slice data[pos:pos+len(s)] is read when it fits
scan_peekString(data, pos, s, hi) ==
    IF pos + Len(s) > Len(data) THEN SRes(FALSE, pos, hi)
    ELSE SRes(Slice(data, pos, pos + Len(s)) = s, pos, Rd(hi, pos + Len(s) - 1))

\* consume(expected)
scan_consume(data, pos, expected, hi) ==
    IF pos >= Len(data) THEN SRes(FALSE, pos, hi)
    ELSE IF Byte(data, pos) # expected THEN SRes(FALSE, pos, Rd(hi, pos))
    ELSE SRes(TRUE, pos + 1, Rd(hi, pos))

RECURSIVE scan_readNameLoop(_, _, _)
scan_readNameLoop(data, pos, hi) ==
    IF pos < Len(data)
    THEN IF fast_isNameChar(Byte(data, pos))
         THEN scan_readNameLoop(data, pos + 1, Rd(hi, pos))
         ELSE SRes(TRUE, pos, Rd(hi, pos))
    ELSE SRes(TRUE, pos, hi)

\* readName: ok when a name was read, which is then data[start:pos]
scan_readName(data, pos, hi) ==
    IF pos >= Len(data) THEN SRes(FALSE, pos, hi)
    ELSE IF ~fast_isNameStartChar(Byte(data, pos)) THEN SRes(FALSE, pos, Rd(hi, pos))
    ELSE scan_readNameLoop(data, pos + 1, Rd(hi, pos))

RECURSIVE scan_skipXMLDeclLoop(_, _, _)
scan_skipXMLDeclLoop(data, pos, hi) ==
    IF pos < Len(data) - 1
    THEN IF Byte(data, pos) = "?"
         THEN IF Byte(data, pos + 1) = ">"
              THEN SRes(TRUE, pos + 2, Rd(hi, pos + 1))
              ELSE scan_skipXMLDeclLoop(data, pos + 1, Rd(hi, pos + 1))
         ELSE scan_skipXMLDeclLoop(data, pos + 1, Rd(hi, pos))
    ELSE SRes(FALSE, pos, hi)

\* skipXMLDeclaration, called when peekString("<?xml") holds
scan_skipXMLDeclaration(data, pos, hi) ==
    LET Peeked(pk) ==
            IF ~pk.ok THEN SRes(TRUE, pos, pk.hi)
            ELSE scan_skipXMLDeclLoop(data, pos + 5, pk.hi)
    IN Peeked(scan_peekString(data, pos, sXmlDecl, hi))

\* a terminator search that runs to the last byte
RECURSIVE scan_searchToEnd(_, _, _, _)
scan_searchToEnd(data, pos, term, hi) ==
    IF pos < Len(data)
    THEN IF Byte(data, pos) # term[1]
         THEN scan_searchToEnd(data, pos + 1, term, Rd(hi, pos))
         ELSE IF Byte(data, pos + 1) # term[2]
              THEN scan_searchToEnd(data, pos + 1, term, Rd(hi, pos + 1))
              ELSE IF Byte(data, pos + 2) # term[3]
                   THEN scan_searchToEnd(data, pos + 1, term, Rd(hi, pos + 2))
                   ELSE SRes(TRUE, pos + 3, Rd(hi, pos + 2))
    ELSE SRes(FALSE, pos, hi)

RECURSIVE scan_search(_, _, _, _)
\* the search for a three-byte terminator in skipComment and parseCDataContent:
\* for p.pos < p.length-2, the bytes at pos, pos+1, pos+2 compared in turn
scan_search(data, pos, term, hi) ==
    IF pos < Len(data) - 2
    THEN IF Byte(data, pos) # term[1]
         THEN scan_search(data, pos + 1, term, Rd(hi, pos))
         ELSE IF Byte(data, pos + 1) # term[2]
              THEN scan_search(data, pos + 1, term, Rd(hi, pos + 1))
              ELSE IF Byte(data, pos + 2) # term[3]
                   THEN scan_search(data, pos + 1, term, Rd(hi, pos + 2))
                   ELSE SRes(TRUE, pos + 3, Rd(hi, pos + 2))
    ELSE SRes(FALSE, pos, hi)

\* a skipComment that puts the cursor back when the comment is unterminated
scan_skipCommentRestoring(data, pos, hi) ==
    LET Found(f) == IF f.ok THEN f ELSE SRes(FALSE, pos, f.hi)
        Peeked(pk) ==
            IF ~pk.ok THEN SRes(TRUE, pos, pk.hi)
            ELSE Found(scan_search(data, pos + 4, sCommentClose, pk.hi))
    IN Peeked(scan_peekString(data, pos, sCommentOpen, hi))

\* skipComment: on failure the cursor stays where the search stopped
scan_skipComment(data, pos, hi) ==
    LET Peeked(pk) ==
            IF ~pk.ok THEN SRes(TRUE, pos, pk.hi)
            ELSE scan_search(data, pos + 4, sCommentClose, pk.hi)
    IN Peeked(scan_peekString(data, pos, sCommentOpen, hi))

\* parseCDataContent; the content is data[start:pos] of the match
scan_parseCDataContent(data, pos, hi) ==
    LET Peeked(pk) ==
            IF ~pk.ok THEN SRes(FALSE, pos, pk.hi)
            ELSE scan_search(data, pos + 9, sCDataClose, pk.hi)
    IN Peeked(scan_peekString(data, pos, sCDataOpen, hi))

RECURSIVE scan_parseText(_, _, _)
scan_parseText(data, pos, hi) ==
    IF pos < Len(data)
    THEN IF Byte(data, pos) = "<" THEN SRes(TRUE, pos, Rd(hi, pos))
         ELSE scan_parseText(data, pos + 1, Rd(hi, pos))
    ELSE SRes(TRUE, pos, hi)

RECURSIVE scan_parseStringWithEscapes(_, _, _, _)
scan_parseStringWithEscapes(data, pos, quote, hi) ==
    IF pos >= Len(data) THEN SRes(FALSE, pos, hi)
    ELSE IF Byte(data, pos) = quote THEN SRes(TRUE, pos + 1, Rd(hi, pos))
    ELSE IF Byte(data, pos) = "\\"
         THEN IF pos + 1 >= Len(data) THEN SRes(FALSE, pos + 1, Rd(hi, pos))
              ELSE scan_parseStringWithEscapes(data, pos + 2, quote, Rd(hi, pos + 1))
    ELSE scan_parseStringWithEscapes(data, pos + 1, quote, Rd(hi, pos))

RECURSIVE scan_parseStringLoop(_, _, _, _)
scan_parseStringLoop(data, pos, quote, hi) ==
    IF pos >= Len(data) THEN SRes(FALSE, pos, hi)
    ELSE IF Byte(data, pos) = quote THEN SRes(TRUE, pos + 1, Rd(hi, pos))
    ELSE IF Byte(data, pos) = "\\" THEN scan_parseStringWithEscapes(data, pos, quote, Rd(hi, pos))
    ELSE scan_parseStringLoop(data, pos + 1, quote, Rd(hi, pos))

scan_parseString(data, pos, hi) ==
    IF pos >= Len(data) THEN SRes(FALSE, pos, hi)
    ELSE IF Byte(data, pos) \notin {"\"", "'"} THEN SRes(FALSE, pos, Rd(hi, pos))
    ELSE scan_parseStringLoop(data, pos + 1, Byte(data, pos), Rd(hi, pos))

\* parseAttribute: readName, skipWhitespace, "=", skipWhitespace, parseString
scan_parseAttribute(data, pos, hi) ==
    LET Equals(e) ==
            IF ~e.ok THEN e
            ELSE LET ws == scan_skipWhitespace(data, e.pos, e.hi) IN
                 scan_parseString(data, ws.pos, ws.hi)
        AfterName(ws) == Equals(scan_consume(data, ws.pos, "=", ws.hi))
        Name(n) ==
            IF ~n.ok THEN n ELSE AfterName(scan_skipWhitespace(data, n.pos, n.hi))
    IN Name(scan_readName(data, pos, hi))

\* ------------------------------------------------------------------------
\* Renderer (render.go)
\* ------------------------------------------------------------------------

\* byte values of the characters the model uses (for sort.Strings)
CharCode(c) ==
    CASE c = " " -> 32 [] c = "!" -> 33 [] c = "\"" -> 34 [] c = "#" -> 35
      [] c = "&" -> 38 [] c = "'" -> 39 [] c = "-" -> 45 [] c = "." -> 46
      [] c = "/" -> 47 [] c = "1" -> 49 [] c = "2" -> 50 [] c = "3" -> 51
      [] c = "4" -> 52 [] c = "9" -> 57 [] c = ":" -> 58 [] c = ";" -> 59
      [] c = "<" -> 60 [] c = "=" -> 61 [] c = ">" -> 62 [] c = "?" -> 63
      [] c = "@" -> 64 [] c = "A" -> 65 [] c = "C" -> 67 [] c = "D" -> 68
      [] c = "E" -> 69 [] c = "O" -> 79
      [] c = "T" -> 84 [] c = "[" -> 91 [] c = "\\" -> 92 [] c = "]" -> 93
      [] c = "_" -> 95 [] c = "a" -> 97 [] c = "b" -> 98 [] c = "c" -> 99
      [] c = "d" -> 100 [] c = "e" -> 101 [] c = "g" -> 103 [] c = "h" -> 104
      [] c = "i" -> 105 [] c = "k" -> 107 [] c = "l" -> 108 [] c = "m" -> 109
      [] c = "n" -> 110 [] c = "o" -> 111 [] c = "p" -> 112 [] c = "q" -> 113
      [] c = "r" -> 114 [] c = "s" -> 115 [] c = "t" -> 116 [] c = "u" -> 117
      [] c = "v" -> 118 [] c = "x" -> 120 [] c = "y" -> 121
      [] OTHER -> 127

RECURSIVE StrLess(_, _)
\* a < b for Go strings: bytewise lexicographic order
StrLess(a, b) ==
    IF b = <<>> THEN FALSE
    ELSE IF a = <<>> THEN TRUE
    ELSE IF CharCode(Head(a)) # CharCode(Head(b)) THEN CharCode(Head(a)) < CharCode(Head(b))
    ELSE StrLess(Tail(a), Tail(b))

RECURSIVE KeysDescending(_)
\* the keys collected from a map, in an order that is not the ascending one
KeysDescending(keys) ==
    IF keys = {} THEN <<>>
    ELSE LET m == CHOOSE k \in keys : \A o \in keys \ {k} : StrLess(o, k)
         IN <<m>> \o KeysDescending(keys \ {m})

RECURSIVE SortStrings(_)
\* sort.Strings over the keys collected from a map
SortStrings(keys) ==
    IF keys = {} THEN <<>>
    ELSE LET m == CHOOSE k \in keys : \A o \in keys \ {k} : StrLess(k, o)
         IN <<m>> \o SortStrings(keys \ {m})

RECURSIVE escapeXML(_)
\* escapeXML = html.EscapeString
escapeXML(s) ==
    IF s = <<>> THEN <<>>
    ELSE (CASE Head(s) = "&" -> eAmp
            [] Head(s) = "<" -> eLt
            [] Head(s) = ">" -> eGt
            [] Head(s) = "\"" -> eNum34
            [] Head(s) = "'" -> eNum39
            [] OTHER -> <<Head(s)>>) \o escapeXML(Tail(s))

RECURSIVE Repeat(_, _)
\* strings.Repeat
Repeat(s, n) == IF n <= 0 THEN <<>> ELSE s \o Repeat(s, n - 1)

HasPrefix(key, c) == key # <<>> /\ Head(key) = c

\* the prefix + indent*depth written in front of an element
IndentOf(prettyPrint, prefix, indent, depth) ==
    IF prettyPrint /\ depth > 0 THEN prefix \o Repeat(indent, depth) ELSE <<>>

NL(prettyPrint) == IF prettyPrint THEN <<"\n">> ELSE <<>>

RECURSIVE renderNodeWithDepth(_, _, _, _, _, _)
RECURSIVE renderElement(_, _, _, _, _, _)
RECURSIVE renderArrayElements(_, _, _, _, _, _, _)
RECURSIVE renderChildren(_, _, _, _, _, _, _)
RECURSIVE renderAttrs(_, _, _)

\* the attribute loop of renderElement over the sorted attribute keys
renderAttrs(props, attrs, i) ==
    IF i > Len(attrs) THEN <<>>
    ELSE (IF props[attrs[i]].t = "lit"
          THEN <<" ">> \o Tail(attrs[i]) \o <<"=", "\"">> \o escapeXML(props[attrs[i]].v) \o <<"\"">>
          ELSE <<>>) \o renderAttrs(props, attrs, i + 1)

\* the child loop of renderElement over the sorted child keys
renderChildren(props, childKeys, i, prettyPrint, prefix, indent, depth) ==
    IF i > Len(childKeys) THEN <<>>
    ELSE renderNodeWithDepth(props[childKeys[i]], prettyPrint, prefix, indent, depth + 1, childKeys[i])
         \o renderChildren(props, childKeys, i + 1, prettyPrint, prefix, indent, depth)

renderElement(node, prettyPrint, prefix, indent, depth, elementName) ==
    LET props == node.props
        attrs == SortStrings({k \in DOMAIN props : HasPrefix(k, "@")})
        hasText == TextKey \in DOMAIN props
        hasCDATA == CDataKey \in DOMAIN props
        childKeys == SortStrings({k \in DOMAIN props : ~HasPrefix(k, "@") /\ ~HasPrefix(k, "#")})
        hasChildren == Len(childKeys) > 0
        open == IndentOf(prettyPrint, prefix, indent, depth) \o <<"<">> \o elementName
                    \o renderAttrs(props, attrs, 1)
    IN IF ~hasText /\ ~hasCDATA /\ ~hasChildren
       THEN open \o sSelfClose \o NL(prettyPrint)
       ELSE open \o <<">">>
            \o (IF hasText /\ props[TextKey].t = "lit" THEN escapeXML(props[TextKey].v) ELSE <<>>)
            \o (IF hasCDATA /\ props[CDataKey].t = "lit"
                THEN sCDataOpen \o props[CDataKey].v \o sCDataClose ELSE <<>>)
            \o (IF hasChildren
                THEN (IF prettyPrint /\ ~hasText THEN <<"\n">> ELSE <<>>)
                     \o renderChildren(props, childKeys, 1, prettyPrint, prefix, indent, depth)
                     \o (IF prettyPrint /\ ~hasText THEN prefix \o Repeat(indent, depth) ELSE <<>>)
                ELSE <<>>)
            \o sEndTagOpen \o elementName \o <<">">> \o NL(prettyPrint)

renderArrayElements(node, i, prettyPrint, prefix, indent, depth, elementName) ==
    IF i > Len(node.elems) THEN <<>>
    ELSE renderNodeWithDepth(node.elems[i], prettyPrint, prefix, indent, depth, elementName)
         \o renderArrayElements(node, i + 1, prettyPrint, prefix, indent, depth, elementName)

renderNodeWithDepth(node, prettyPrint, prefix, indent, depth, elementName) ==
    CASE node.t = "nil" ->
            IndentOf(prettyPrint, prefix, indent, depth) \o <<"<">> \o elementName
                \o sSelfClose \o NL(prettyPrint)
      [] node.t = "obj" -> renderElement(node, prettyPrint, prefix, indent, depth, elementName)
      [] node.t = "arr" -> renderArrayElements(node, 1, prettyPrint, prefix, indent, depth, elementName)
      [] node.t = "lit" ->
            IndentOf(prettyPrint, prefix, indent, depth) \o <<"<">> \o elementName \o <<">">>
                \o escapeXML(node.v) \o sEndTagOpen \o elementName \o <<">">> \o NL(prettyPrint)

rootName == <<"r", "o", "o", "t">>

renderNode(node, prettyPrint, prefix, indent, elementName) ==
    renderNodeWithDepth(node, prettyPrint, prefix, indent, 0, elementName)

\* xml.Render
Render(node) == renderNode(node, FALSE, <<>>, <<>>, rootName)

\* xml.RenderIndent
RenderIndent(node, prefix, indent) == renderNode(node, TRUE, prefix, indent, rootName)

\* ------------------------------------------------------------------------
\* Marshal: Go types, Go values and the compiled encoders
\* ------------------------------------------------------------------------

\* a Go type: a string, a named struct with its fields, a slice of elem
TString == [kind |-> "string", name |-> <<>>, fields |-> <<>>, elem |-> <<>>]

TStruct(name, fields) == [kind |-> "struct", name |-> name, fields |-> fields, elem |-> <<>>]

TSlice(elem) == [kind |-> "slice", name |-> <<>>, fields |-> <<>>, elem |-> <<elem>>]

TInt == [kind |-> "int", name |-> <<"i", "n", "t">>, fields |-> <<>>, elem |-> <<>>]

TBool == [kind |-> "bool", name |-> <<"b", "o", "o", "l">>, fields |-> <<>>, elem |-> <<>>]

\* chan int, a kind Marshal has no encoder for
TChan ==
    [kind |-> "chan", name |-> <<"c", "h", "a", "n", " ", "i", "n", "t">>, fields |-> <<>>,
     elem |-> <<>>]

\* reflect.StructField: the Go name, the value of the xml tag, the type
StructField(name, tag, type) == [name |-> name, tag |-> tag, type |-> type]

\* a Go value: a string, a struct with its field values, a slice (nil or
\* not) with its elements
VString(s) == [k |-> "string", s |-> s, f |-> <<>>, nil |-> FALSE]

VStruct(f) == [k |-> "struct", s |-> <<>>, f |-> f, nil |-> FALSE]

VSlice(nil, elems) == [k |-> "slice", s |-> <<>>, f |-> elems, nil |-> nil]

\* an int and a bool hold their value in f; a channel is nil or not
VInt(n) == [k |-> "int", s |-> <<>>, f |-> <<n>>, nil |-> FALSE]

VBool(b) == [k |-> "bool", s |-> <<>>, f |-> <<b>>, nil |-> FALSE]

VChan(nil) == [k |-> "chan", s |-> <<>>, f |-> <<>>, nil |-> nil]

RECURSIVE Zero(_)
\* reflect.Zero(t)
Zero(t) ==
    CASE t.kind = "string" -> VString(<<>>)
      [] t.kind = "struct" -> VStruct([i \in 1..Len(t.fields) |-> Zero(t.fields[i].type)])
      [] t.kind = "int" -> VInt(0)
      [] t.kind = "bool" -> VBool(FALSE)
      [] t.kind = "chan" -> VChan(TRUE)
      [] OTHER -> VSlice(TRUE, <<>>)

RECURSIVE Split(_, _)
\* strings.Split(s, sep) for a one-byte separator
Split(s, sep) ==
    LET Cut(i) ==
            IF i = -1 THEN <<s>>
            ELSE <<Slice(s, 0, i)>> \o Split(Slice(s, i + 1, Len(s)), sep)
    IN Cut(FindFrom(s, 0, <<sep>>))

oAttr == <<"a", "t", "t", "r">>

oCData == <<"c", "d", "a", "t", "a">>

oCharData == <<"c", "h", "a", "r", "d", "a", "t", "a">>

oOmitEmpty == <<"o", "m", "i", "t", "e", "m", "p", "t", "y">>

\* parseTag: the name before the first comma, then the options
parseTag(tag) ==
    LET Info(parts, opts) ==
            [name |-> parts[1], skip |-> FALSE, attr |-> oAttr \in opts,
             cdata |-> oCData \in opts, chardata |-> oCharData \in opts,
             omitEmpty |-> oOmitEmpty \in opts]
        Parts(parts) == Info(parts, {TrimSpace(parts[i]) : i \in 2..Len(parts)})
    IN IF tag = <<"-">>
       THEN [name |-> <<"-">>, skip |-> TRUE, attr |-> FALSE, cdata |-> FALSE,
             chardata |-> FALSE, omitEmpty |-> FALSE]
       ELSE Parts(Split(tag, ","))

\* getFieldInfo: the Go field name stands in for an empty tag name
getFieldInfo(field) ==
    LET Named(info) ==
            IF info.name = <<>> /\ ~info.skip THEN [info EXCEPT !.name = field.name] ELSE info
    IN Named(parseTag(field.tag))

\* isEmptyValue, for the kinds of the model
isEmptyValue(v) ==
    CASE v.k = "string" -> Len(v.s) = 0
      [] v.k = "slice" -> Len(v.f) = 0
      [] v.k = "bool" -> ~v.f[1]
      [] v.k = "int" -> v.f[1] = 0
      [] OTHER -> FALSE

DecimalDigit(d) ==
    CASE d = 0 -> "0" [] d = 1 -> "1" [] d = 2 -> "2" [] d = 3 -> "3" [] d = 4 -> "4"
      [] d = 5 -> "5" [] d = 6 -> "6" [] d = 7 -> "7" [] d = 8 -> "8" [] OTHER -> "9"

RECURSIVE FormatUint(_)
FormatUint(n) ==
    IF n < 10 THEN <<DecimalDigit(n)>> ELSE Append(FormatUint(n \div 10), DecimalDigit(n % 10))

\* strconv.FormatInt(n, 10)
FormatInt(n) == IF n < 0 THEN <<"-">> \o FormatUint(0 - n) ELSE FormatUint(n)

\* strconv.FormatBool
FormatBool(b) == IF b THEN <<"t", "r", "u", "e">> ELSE <<"f", "a", "l", "s", "e">>

\* formatValue: the text of an attribute or of character data
formatValue(v) ==
    CASE v.k = "string" -> v.s
      [] v.k = "int" -> FormatInt(v.f[1])
      [] v.k = "bool" -> FormatBool(v.f[1])
      [] OTHER -> <<>>

RECURSIVE appendEscapeXML(_)
\* appendEscapeXML: the five special bytes become entities
appendEscapeXML(s) ==
    IF s = <<>> THEN <<>>
    ELSE (CASE Head(s) = "&" -> eAmp
            [] Head(s) = "<" -> eLt
            [] Head(s) = ">" -> eGt
            [] Head(s) = "\"" -> eNum34
            [] Head(s) = "'" -> eNum39
            [] OTHER -> <<Head(s)>>) \o appendEscapeXML(Tail(s))

\* <elemName/>
\* a nil slice that writes nothing
noElement(elemName) == <<>>

emptyElement(elemName) == <<"<">> \o elemName \o sSelfClose

xmlStringEnc(rv, elemName) ==
    <<"<">> \o elemName \o <<">">> \o appendEscapeXML(rv.s) \o sEndTagOpen \o elemName \o <<">">>

\* xmlIntEnc, xmlBoolEnc: the formatted value, not escaped
xmlFormatEnc(rv, elemName) ==
    <<"<">> \o elemName \o <<">">> \o formatValue(rv) \o sEndTagOpen \o elemName \o <<">">>

\* how the field loop of buildXMLStructEncoder files a field
fieldRole(info) ==
    IF info.skip THEN "skip"
    ELSE IF info.attr THEN "attr"
    ELSE IF info.chardata THEN "chardata"
    ELSE IF info.cdata THEN "cdata"
    ELSE "child"

RECURSIVE fieldsWithRole(_, _, _)
\* the indexes of the fields filed under role, in declaration order
fieldsWithRole(t, role, i) ==
    IF i > Len(t.fields) THEN <<>>
    ELSE (IF fieldRole(getFieldInfo(t.fields[i])) = role THEN <<i>> ELSE <<>>)
             \o fieldsWithRole(t, role, i + 1)

RECURSIVE sortAttrs(_, _)
\* sort.Slice of the attribute fields by name
sortAttrs(t, idxs) ==
    LET Least(m) == <<m>> \o sortAttrs(t, idxs \ {m})
    IN IF idxs = {} THEN <<>>
       ELSE Least(CHOOSE i \in idxs : \A o \in idxs \ {i} :
                      ~StrLess(getFieldInfo(t.fields[o]).name, getFieldInfo(t.fields[i]).name))

\* the last index of a sequence of indexes, 0 when there is none
lastOf(idxs) == IF idxs = <<>> THEN 0 ELSE idxs[Len(idxs)]

\* the xmlStructEncoder that buildXMLStructEncoder compiles for t
xmlStructEncoder(t) ==
    LET Sorted(attrs) == sortAttrs(t, {attrs[k] : k \in 1..Len(attrs)})
    IN [attrs |-> Sorted(fieldsWithRole(t, "attr", 1)),
        chardata |-> lastOf(fieldsWithRole(t, "chardata", 1)),
        cdata |-> lastOf(fieldsWithRole(t, "cdata", 1)),
        children |-> fieldsWithRole(t, "child", 1)]

RECURSIVE writeAttrs(_, _, _, _)
\* the sorted attributes, empty values left out
writeAttrs(t, rv, attrs, k) ==
    LET One(name, attrVal) ==
            IF attrVal # <<>>
            THEN <<" ">> \o name \o <<"=", "\"">> \o appendEscapeXML(attrVal) \o <<"\"">>
            ELSE <<>>
    IN IF k > Len(attrs) THEN <<>>
       ELSE One(getFieldInfo(t.fields[attrs[k]]).name, formatValue(rv.f[attrs[k]]))
                \o writeAttrs(t, rv, attrs, k + 1)

\* the child field at index i is written
childWritten(t, rv, i) == ~(getFieldInfo(t.fields[i]).omitEmpty /\ isEmptyValue(rv.f[i]))

\* hasContent of the struct encoder
hasContent(t, rv, se) ==
    \/ se.chardata # 0 /\ formatValue(rv.f[se.chardata]) # <<>>
    \/ se.cdata # 0 /\ formatValue(rv.f[se.cdata]) # <<>>
    \/ \E k \in 1..Len(se.children) : childWritten(t, rv, se.children[k])

\* the character data and the CDATA section of the struct encoder
writeCharData(rv, se) ==
    IF se.chardata # 0 THEN appendEscapeXML(formatValue(rv.f[se.chardata])) ELSE <<>>

writeCData(rv, se) ==
    IF se.cdata # 0 /\ formatValue(rv.f[se.cdata]) # <<>>
    THEN sCDataOpen \o formatValue(rv.f[se.cdata]) \o sCDataClose
    ELSE <<>>

RECURSIVE buildXMLEncoder(_, _, _)
RECURSIVE writeChildren(_, _, _, _)
RECURSIVE writeElems(_, _, _, _)

\* the child elements of the struct encoder, in declaration order
writeChildren(t, rv, children, k) ==
    IF k > Len(children) THEN <<>>
    ELSE (IF childWritten(t, rv, children[k])
          THEN buildXMLEncoder(t.fields[children[k]].type, rv.f[children[k]],
                               getFieldInfo(t.fields[children[k]]).name)
          ELSE <<>>) \o writeChildren(t, rv, children, k + 1)

\* the encoder buildXMLStructEncoder(t) returns, run on rv
buildXMLStructEncoder(t, rv, elemName) ==
    LET Write(se) ==
            <<"<">> \o elemName \o writeAttrs(t, rv, se.attrs, 1)
                \o (IF ~hasContent(t, rv, se) THEN sSelfClose
                    ELSE <<">">> \o writeCharData(rv, se) \o writeCData(rv, se)
                             \o writeChildren(t, rv, se.children, 1)
                             \o sEndTagOpen \o elemName \o <<">">>)
    IN Write(xmlStructEncoder(t))

\* the element loop of the slice encoder
writeElems(elemType, elems, elemName, i) ==
    IF i > Len(elems) THEN <<>>
    ELSE buildXMLEncoder(elemType, elems[i], elemName)
             \o writeElems(elemType, elems, elemName, i + 1)

\* the encoder buildXMLSliceEncoder(t) returns, run on rv
buildXMLSliceEncoder(t, rv, elemName) ==
    IF rv.nil THEN emptyElement(elemName) ELSE writeElems(t.elem[1], rv.f, elemName, 1)

\* the encoder buildXMLEncoder(t) returns, run on rv
buildXMLEncoder(t, rv, elemName) ==
    CASE t.kind = "string" -> xmlStringEnc(rv, elemName)
      [] t.kind \in {"int", "bool"} -> xmlFormatEnc(rv, elemName)
      [] t.kind = "struct" -> buildXMLStructEncoder(t, rv, elemName)
      [] t.kind = "slice" -> buildXMLSliceEncoder(t, rv, elemName)
      [] OTHER -> <<>>

\* the error of an encoder: whether it is set, and the type it names
NoMarshalErr == [set |-> FALSE, type |-> <<>>]

\* xmlUnsupportedEnc(t): "xml: unsupported type %s"
xmlUnsupportedEnc(t) == [set |-> TRUE, type |-> t.name]

RECURSIVE encodeError(_, _)
RECURSIVE childrenError(_, _, _, _)
RECURSIVE elemsError(_, _, _)

\* the error the child loop of the struct encoder stops at
childrenError(t, rv, children, k) ==
    LET First(e) == IF e.set THEN e ELSE childrenError(t, rv, children, k + 1)
    IN IF k > Len(children) THEN NoMarshalErr
       ELSE IF ~childWritten(t, rv, children[k])
            THEN childrenError(t, rv, children, k + 1)
       ELSE First(encodeError(t.fields[children[k]].type, rv.f[children[k]]))

\* the error the element loop of the slice encoder stops at
elemsError(elemType, elems, i) ==
    LET First(e) == IF e.set THEN e ELSE elemsError(elemType, elems, i + 1)
    IN IF i > Len(elems) THEN NoMarshalErr ELSE First(encodeError(elemType, elems[i]))

\* the error returned by the encoder buildXMLEncoder(t) returns, run on rv
encodeError(t, rv) ==
    CASE t.kind \in {"string", "int", "bool"} -> NoMarshalErr
      [] t.kind = "struct" ->
            IF hasContent(t, rv, xmlStructEncoder(t))
            THEN childrenError(t, rv, xmlStructEncoder(t).children, 1)
            ELSE NoMarshalErr
      [] t.kind = "slice" -> IF rv.nil THEN NoMarshalErr ELSE elemsError(t.elem[1], rv.f, 1)
      [] OTHER -> xmlUnsupportedEnc(t)

\* xml.Marshal(v) for a non-nil v of type t: the root element carries the
\* name of a named struct type, "root" otherwise
Marshal(t, v) ==
    buildXMLEncoder(t, v, IF t.kind = "struct" /\ t.name # <<>> THEN t.name ELSE rootName)

\* ------------------------------------------------------------------------
\* Unmarshal: the fast parser's value stored into a Go value
\* ------------------------------------------------------------------------

\* the outcome of storing into a Go value
URes(ok, v) == [ok |-> ok, v |-> v]

RECURSIVE extractTextContent(_)
extractTextContent(value) ==
    CASE value.t = "str" -> value.s
      [] value.t = "map" /\ TextKey \in DOMAIN value.m -> extractTextContent(value.m[TextKey])
      [] OTHER -> <<>>

\* unmarshalString into a value of type t
unmarshalString(s, t, rv) ==
    IF t.kind = "string" THEN URes(TRUE, VString(s)) ELSE URes(FALSE, rv)

\* the key unmarshalStruct files a field under; skip for the tag "-"
unmarshalKey(field) ==
    LET tag == field.tag
        Key(xmlName, isAttr, isCharData) ==
            [skip |-> FALSE,
             key |-> IF isAttr THEN <<"@">> \o xmlName
                     ELSE IF isCharData THEN TextKey
                     ELSE xmlName]
        Whole(xmlName, isAttr, isCharData) ==
            Key(IF ~isAttr /\ ~isCharData /\ Head(tag) # "," THEN tag ELSE xmlName,
                isAttr, isCharData)
        Comma(idx) ==
            IF idx = -1 THEN Whole(field.name, FALSE, FALSE)
            ELSE Whole(IF idx > 0 THEN Slice(tag, 0, idx) ELSE field.name,
                       Slice(tag, idx + 1, Len(tag)) = oAttr,
                       Slice(tag, idx + 1, Len(tag)) = oCharData)
    IN IF tag = <<"-">> THEN [skip |-> TRUE, key |-> <<>>]
       ELSE IF tag = <<>> THEN Key(field.name, FALSE, FALSE)
       ELSE Comma(FindFrom(tag, 0, <<",">>))

RECURSIVE buildFieldMap(_, _, _)
\* fieldMap of unmarshalStruct: key -> field index, a later field replacing
\* an earlier one under the same key
buildFieldMap(t, i, fieldMap) ==
    LET Filed(k) ==
            buildFieldMap(t, i + 1, IF k.skip THEN fieldMap ELSE Put(fieldMap, k.key, i))
    IN IF i > Len(t.fields) THEN fieldMap ELSE Filed(unmarshalKey(t.fields[i]))

RECURSIVE unmarshalValue(_, _, _)
RECURSIVE unmarshalFields(_, _, _, _, _)
RECURSIVE unmarshalElems(_, _, _, _)

\* the populate loop of unmarshalStruct over the keys of m that name a
\* field; Go ranges over the map in no fixed order, and each key stores into
\* a field of its own
unmarshalFields(m, keys, fieldMap, t, rv) ==
    LET Stored(key, r) ==
            IF ~r.ok THEN URes(FALSE, rv)
            ELSE unmarshalFields(m, keys \ {key}, fieldMap, t,
                                 VStruct([rv.f EXCEPT ![fieldMap[key]] = r.v]))
        Field(key) ==
            Stored(key, unmarshalValue(m[key], t.fields[fieldMap[key]].type,
                                       rv.f[fieldMap[key]]))
    IN IF keys = {} THEN URes(TRUE, rv) ELSE Field(CHOOSE k \in keys : TRUE)

unmarshalStruct(m, t, rv) ==
    LET Populate(fieldMap) ==
            unmarshalFields(m, (DOMAIN m) \cap (DOMAIN fieldMap), fieldMap, t, rv)
    IN Populate(buildFieldMap(t, 1, EmptyProps))

\* the element loop of unmarshalArray
unmarshalElems(arr, elemType, i, done) ==
    LET Stored(r) ==
            IF ~r.ok THEN URes(FALSE, VSlice(FALSE, done))
            ELSE unmarshalElems(arr, elemType, i + 1, Append(done, r.v))
    IN IF i > Len(arr) THEN URes(TRUE, VSlice(FALSE, done))
       ELSE Stored(unmarshalValue(arr[i], elemType, Zero(elemType)))

\* unmarshalArray: a slice is made anew with one element per entry
unmarshalArray(arr, t, rv) ==
    IF t.kind # "slice" THEN URes(FALSE, rv) ELSE unmarshalElems(arr, t.elem[1], 1, <<>>)

unmarshalValue(value, t, rv) ==
    CASE value.t = "nil" -> URes(TRUE, Zero(t))
      [] value.t = "map" ->
            IF t.kind = "string" THEN unmarshalString(extractTextContent(value), t, rv)
            ELSE IF t.kind = "struct" THEN unmarshalStruct(value.m, t, rv)
            ELSE URes(FALSE, rv)
      [] value.t = "slice" -> unmarshalArray(value.elems, t, rv)
      [] OTHER -> unmarshalString(value.s, t, rv)

\* a Go value with nothing in it, where no value applies
NoValue == [k |-> "none", s |-> <<>>, f |-> <<>>, nil |-> FALSE]

\* xml.Unmarshal(data, &v2) with v2 the zero value of t: the error, or the
\* value v2 holds after a nil return
Unmarshal(data, t) ==
    LET Stored(r) ==
            IF ~r.ok THEN [status |-> "error", val |-> NoValue]
            ELSE [status |-> "ok", val |-> r.v]
        Parsed(p) ==
            IF ~p.ok THEN [status |-> "error", val |-> NoValue]
            ELSE Stored(unmarshalValue(p.val, t, Zero(t)))
    IN Parsed(fast_Parse(data))

\* xml.Unmarshal(data, &v) with v holding rv, for a type that does not
\* implement Unmarshaler: the error, and the value v holds after the call
UnmarshalInto(data, t, rv) ==
    LET Stored(r) == [status |-> IF r.ok THEN "ok" ELSE "error", val |-> r.v]
        Parsed(p) ==
            IF ~p.ok THEN [status |-> "error", val |-> rv]
            ELSE Stored(unmarshalValue(p.val, t, rv))
    IN Parsed(fast_Parse(data))

\* ------------------------------------------------------------------------
\* The struct types marshalled in the model
\* ------------------------------------------------------------------------

\* type Elem struct { V string `xml:"v"` }
ElemType == TStruct(<<"E", "l", "e", "m">>, << StructField(<<"V">>, <<"v">>, TString) >>)

\* type Attr struct {
\*     Key  string `xml:"k,attr"`
\*     ID   string `xml:"id,attr"`
\*     Body string `xml:",chardata"`
\* }
AttrType ==
    TStruct(<<"A", "t", "t", "r">>,
            << StructField(<<"K", "e", "y">>, <<"k", ",", "a", "t", "t", "r">>, TString),
               StructField(<<"I", "D">>, <<"i", "d", ",", "a", "t", "t", "r">>, TString),
               StructField(<<"B", "o", "d", "y">>,
                           <<",", "c", "h", "a", "r", "d", "a", "t", "a">>, TString) >>)

\* type Opt struct {
\*     Note  string `xml:"note,omitempty"`
\*     Title string `xml:"title"`
\* }
OptType ==
    TStruct(<<"O", "p", "t">>,
            << StructField(<<"N", "o", "t", "e">>,
                           <<"n", "o", "t", "e", ",", "o", "m", "i", "t", "e", "m", "p", "t", "y">>,
                           TString),
               StructField(<<"T", "i", "t", "l", "e">>, <<"t", "i", "t", "l", "e">>, TString) >>)

\* type Outer struct {
\*     Item Elem     `xml:"item"`
\*     Tags []string `xml:"tag"`
\* }
OuterType ==
    TStruct(<<"O", "u", "t", "e", "r">>,
            << StructField(<<"I", "t", "e", "m">>, <<"i", "t", "e", "m">>, ElemType),
               StructField(<<"T", "a", "g", "s">>, <<"t", "a", "g">>, TSlice(TString)) >>)

\* ------------------------------------------------------------------------
\* The buffer pools: bufferPool of the renderer, xmlBufPool of Marshal
\* ------------------------------------------------------------------------

\* capacity of the buffer the New function of either pool allocates
NewBufferCap == 1024

\* largest capacity putBuffer returns to the render pool: 64*1024
MaxPooledCap == 65536

\* both pools empty
NoPools == [render |-> {}, marshal |-> {}]

\* Pool.Get: a retained buffer, or a new one (always possible: the runtime may
\* have dropped the retained ones)
Gettable(pool) == pool \cup {NewBufferCap}

\* the capacities a buffer of capacity cap can have after n bytes were
\* written to it: unchanged when they fit, else as the runtime grows it
Grown(cap, n) == IF n <= cap THEN {cap} ELSE {n, 2 * cap + n}

\* putBuffer: the buffer goes back unless its capacity exceeds the limit
putBuffer(pool, cap) == IF cap <= MaxPooledCap THEN pool \cup {cap} ELSE pool

\* xmlBufPool.Put(bp) at the end of Marshal
xmlBufPoolPut(pool, cap) == pool \cup {cap}

\* ==== State machines ====================================================

\* ------------------------------------------------------------------------
\* Bounds and input families
\* ------------------------------------------------------------------------

\* longest input, counted in fragments
MaxFrags == 3

\* most children of the root element in a generated document
MaxChildren == 3

\* The fragments inputs are assembled from: tags of two element names, an
\* attribute, text, a bare and an escaped ampersand, whitespace, a comment (complete and unterminated), the
\* CDATA delimiters and an XML declaration.
Fragments ==
    { <<"<", "a", ">">>, <<"<", "/", "a", ">">>, <<"<", "a", "/", ">">>,
      <<"<", "c", ">">>, <<"<", "/", "c", ">">>,
      <<"<", "a", " ", "k", "=", "\"", "v", "\"", ">">>,
      <<"x">>, <<"&">>, eAmp, <<" ">>,
      <<"<", "!", "-", "-", "c", "-", "-", ">">>, <<"<", "!", "-", "-">>,
      sCDataOpen, sCDataClose,
      <<"<", "?", "x", "m", "l", "?", ">">> }

RECURSIVE FragSeqs(_)
\* the concatenations of exactly n fragments
FragSeqs(n) ==
    IF n = 0 THEN {<<>>}
    ELSE {f \o r : f \in Fragments, r \in FragSeqs(n - 1)}

\* the concatenations of at most n fragments
FragInputs(n) == UNION {FragSeqs(k) : k \in 0..n}

ChildNames == {<<"c">>, <<"d">>}

DigitOf(i) == CASE i = 1 -> "1" [] i = 2 -> "2" [] i = 3 -> "3" [] i = 4 -> "4" [] OTHER -> "9"

OpenTag(name) == <<"<">> \o name \o <<">">>

CloseTag(name) == sEndTagOpen \o name \o <<">">>

RECURSIVE ChildrenText(_, _)
\* <n1>1</n1><n2>2</n2>... for a sequence of child names, from index i
ChildrenText(names, i) ==
    IF i > Len(names) THEN <<>>
    ELSE OpenTag(names[i]) \o <<DigitOf(i)>> \o CloseTag(names[i]) \o ChildrenText(names, i + 1)

\* <r> children </r>
ChildDoc(names) == OpenTag(<<"r">>) \o ChildrenText(names, 1) \o CloseTag(<<"r">>)

ChildNameSeqs == UNION {[1..n -> ChildNames] : n \in 0..MaxChildren}

ChildDocs == {ChildDoc(names) : names \in ChildNameSeqs}

\* contents of a CDATA section
CDataContents == { <<"a">>, <<"a", "<", "b", ">", "c">>, <<"x", "&", "y">>, <<"a", " ", "b">> }

\* <d><![CDATA[ content ]]></d>
CDataDoc(content) == OpenTag(<<"d">>) \o sCDataOpen \o content \o sCDataClose \o CloseTag(<<"d">>)

CDataDocs == {CDataDoc(c) : c \in CDataContents}

\* what follows the opener of a construct that is never closed
OpenBodies == { <<>>, <<"c">>, <<" ">> }

\* a comment, a CDATA section and an XML declaration that are opened and
\* never closed
UnterminatedConstructs ==
    {open \o body : open \in {sCommentOpen, sCDataOpen, sXmlDecl}, body \in OpenBodies}

\* a start tag whose attribute value lacks the closing quote
UnterminatedAttrTag == <<"<", "a", " ", "k", "=", "\"", "v", ">">>

\* documents with one unterminated construct: before the root element, inside
\* an element, after the root element, and in an attribute value
UnterminatedDocs ==
    {u \o <<"<", "a", "/", ">">> : u \in UnterminatedConstructs}
        \cup {OpenTag(<<"a">>) \o u \o CloseTag(<<"a">>) : u \in UnterminatedConstructs}
        \cup {<<"<", "a", "/", ">">> \o u : u \in UnterminatedConstructs}
        \cup {UnterminatedAttrTag \o CloseTag(<<"a">>),
              OpenTag(<<"r">>) \o UnterminatedAttrTag \o CloseTag(<<"a">>) \o CloseTag(<<"r">>)}

\* what may stand between a start tag and the end tag that closes it
Contents ==
    { <<>>, <<"x">>, <<" ">>, <<"<", "b", "/", ">">>,
      sCommentOpen \o <<"c">> \o sCommentClose,
      sCDataOpen \o <<"x">> \o sCDataClose }

\* documents whose end tag names another element than the start tag it
\* closes, each with the two names: a root closed by the wrong name, and the
\* crossed pair <a><b></a></b>
MismatchCases ==
    { [doc |-> OpenTag(t[1]) \o t[2] \o CloseTag(t[3]), opening |-> t[1], closing |-> t[3]] :
        t \in { u \in {<<"a">>, <<"b">>} \X Contents \X {<<"a">>, <<"b">>, <<"c">>} :
                  u[1] # u[3] } }
    \cup
    { [doc |-> OpenTag(<<"a">>) \o OpenTag(<<"b">>) \o c \o CloseTag(<<"a">>) \o CloseTag(<<"b">>),
       opening |-> <<"b">>, closing |-> <<"a">>] : c \in Contents }

MismatchDocs == { m.doc : m \in MismatchCases }

MismatchOf(d) == CHOOSE m \in MismatchCases : m.doc = d

\* most attributes of an element in the documents of the two empty forms
MaxAttrs == 2

\* an attribute as written: its name, the quote character and the value
Attrs ==
    { [name |-> n, quote |-> q, value |-> v] :
        n \in {<<"k">>, <<"d">>, <<"m">>}, q \in {"\"", "'"}, v \in {<<>>, <<"v">>} }

\* attribute lists of exactly n attributes with distinct names
RECURSIVE AttrLists(_)
AttrLists(n) ==
    IF n = 0 THEN { <<>> }
    ELSE { Append(l, a) : <<l, a>> \in
             { u \in AttrLists(n - 1) \X Attrs :
                 \A i \in 1..Len(u[1]) : u[1][i].name # u[2].name } }

RECURSIVE AttrsText(_)
AttrsText(l) ==
    IF l = <<>> THEN <<>>
    ELSE <<" ">> \o Head(l).name \o <<"=", Head(l).quote>> \o Head(l).value
         \o <<Head(l).quote>> \o AttrsText(Tail(l))

\* <r .../> and <r ...></r> for every element name and attribute list
ElementForms ==
    UNION { { [doc |-> <<"<">> \o n \o AttrsText(l) \o sSelfClose,
               attrs |-> l, form |-> "self-closing"],
              [doc |-> <<"<">> \o n \o AttrsText(l) \o <<">">> \o CloseTag(n),
               attrs |-> l, form |-> "empty"] } :
            <<n, l>> \in {<<"r">>, <<"a">>} \X UNION { AttrLists(k) : k \in 0..MaxAttrs } }

FormDocs == { c.doc : c \in ElementForms }

FormOf(d) == CHOOSE c \in ElementForms : c.doc = d

\* attribute values as written with the text they stand for: the five
\* predefined entities, alone and inside other text, and a plain value
WrittenValues ==
    { [written |-> eLt, literal |-> <<"<">>],
      [written |-> eGt, literal |-> <<">">>],
      [written |-> eAmp, literal |-> <<"&">>],
      [written |-> eApos, literal |-> <<"'">>],
      [written |-> eQuot, literal |-> <<"\"">>],
      [written |-> <<"x">> \o eAmp \o <<"y">>, literal |-> <<"x", "&", "y">>],
      [written |-> <<"x">>, literal |-> <<"x">>] }

\* <a k="..."/> and <a k='...'></a> for every written value
QuotedAttrCases ==
    { [doc |-> <<"<", "a", " ", "k", "=", q>> \o w.written \o <<q>> \o close,
       literal |-> w.literal] :
        w \in WrittenValues, q \in {"\"", "'"},
        close \in {sSelfClose, <<">">> \o CloseTag(<<"a">>)} }

QuotedAttrDocs == { c.doc : c \in QuotedAttrCases }

QuotedAttrOf(d) == CHOOSE c \in QuotedAttrCases : c.doc = d

\* well-formed documents with a comment inside the content of the root, each
\* with the document left when the comment is removed
CommentCases ==
    { [doc |-> OpenTag(<<"a">>) \o pre \o sCommentOpen \o c \o sCommentClose \o post
                 \o CloseTag(<<"a">>),
       stripped |-> OpenTag(<<"a">>) \o pre \o post \o CloseTag(<<"a">>)] :
        pre \in {<<>>, <<"x">>, <<"<", "b", "/", ">">>},
        post \in {<<>>, <<"x">>, <<"<", "c", "/", ">">>},
        c \in {<<>>, <<"c">>, <<" ", "c", " ">>} }

CommentDocs == { c.doc : c \in CommentCases }

CommentOf(d) == CHOOSE c \in CommentCases : c.doc = d

\* what stands after each child of a document of repeated children: nothing,
\* text, a comment or a CDATA section
Separators ==
    { <<>>, <<"x">>, sCommentOpen \o <<"c">> \o sCommentClose,
      sCDataOpen \o <<"y">> \o sCDataClose }

RECURSIVE SeparatedChildren(_, _, _)
SeparatedChildren(names, sep, i) ==
    IF i > Len(names) THEN <<>>
    ELSE OpenTag(names[i]) \o <<DigitOf(i)>> \o CloseTag(names[i]) \o sep
         \o SeparatedChildren(names, sep, i + 1)

\* <r> child sep child sep ... </r>, the i-th child holding the digit i
RepeatCases ==
    { [doc |-> OpenTag(<<"r">>) \o SeparatedChildren(c[1], c[2], 1) \o CloseTag(<<"r">>),
       names |-> c[1], sep |-> c[2]] : c \in ChildNameSeqs \X Separators }

RepeatDocs == { c.doc : c \in RepeatCases }

RepeatOf(d) == CHOOSE c \in RepeatCases : c.doc = d

\* longest input of the stepped fast parser, in fragments
MaxScanFrags == 3

\* The fragments those inputs are assembled from: tags, an attribute, an
\* attribute value cut after a backslash, whitespace, and the opening and the
\* closing delimiters of comments, CDATA sections and the XML declaration,
\* whole and cut short.
ScanFragments ==
    { <<"<", "a", ">">>, <<"<", "/", "a", ">">>, <<"<", "a", "/", ">">>,
      <<"<", "a", " ", "k", "=", "\"", "v", "\"", ">">>,
      <<"<", "a", " ", "k", "=", "\"", "\\">>,
      <<" ">>,
      sCommentOpen, sCommentClose, <<"-", "-">>,
      sCDataOpen, sCDataClose, <<"]", "]">>,
      sXmlDecl, <<"?", ">">> }

RECURSIVE ScanSeqs(_)
ScanSeqs(n) ==
    IF n = 0 THEN {<<>>}
    ELSE {f \o r : f \in ScanFragments, r \in ScanSeqs(n - 1)}

ScanInputs(n) == UNION {ScanSeqs(k) : k \in 0..n}

\* the inputs of at most n fragments, with the documents of children, of
\* CDATA sections, of unterminated constructs, of mismatched tags and of
\* quoted attribute values, and of comments in content
Inputs(n) == FragInputs(n) \cup ChildDocs \cup CDataDocs \cup UnterminatedDocs \cup MismatchDocs
    \cup QuotedAttrDocs \cup CommentDocs

\* ------------------------------------------------------------------------
\* State
\* ------------------------------------------------------------------------

VARIABLES
    input,      \* the text given to Parse and Validate
    vres,       \* outcome of Validate(input): "none", "ok", "error"
    f0,         \* result of the fast parser on input
    ri,         \* RenderIndent(p0.node, prefix, indent) with its arguments
    calls,      \* per goroutine, its concurrent call of Parse, ParseReader, Validate
                \* or ValidateReader: operation, input, position, result
    parsers,    \* the parser objects those calls have allocated
    p0,         \* result of Parse(input), or the tree a pipeline starts from
    r1,         \* Render(p0.node)
    p1,         \* Parse(r1)
    r2,         \* Render(p1.node)
    p2,         \* Parse(r2)
    cursor,     \* the fast parser running on input step by step: its cursor, the
                \* highest index its last step read, the open elements
    matched,    \* what NameMatcher or TextMatcher returned at one position of
                \* input, on a ByteStream and on a plain Stream
    cache,      \* xmlEncoderCache: the published map, type -> encoder
    mu,         \* xmlEncoderMu: 0 when free, else the goroutine holding it
                \* between two steps
    realEnc,    \* the realEnc variable each published placeholder captures
    stack,      \* per goroutine, its active xmlEncoderForType calls
    gstate,     \* per goroutine: "idle", "building", "encode", "done", "panic"
    genc,       \* per goroutine, the encoder Marshal obtained
    visible,    \* per goroutine, the realEnc assignments ordered before it
    builds,     \* per type, how many times an encoding routine was built for it
    mval,       \* the Go value given to Marshal
    pools,      \* the capacities of the buffers the render pool and the marshal
                \* pool retain
    merr,       \* the error Marshal returned: the type it names, none when nil
    mxml,       \* the bytes (or error) Marshal returned
    mout,       \* the outcome of Unmarshal on those bytes
    heap,       \* the Node objects a pointer given to Marshal can reach
    estack,     \* the encoder calls in progress on that value, innermost last
    ebuf,       \* the bytes those encoders have appended
    eout        \* how that Marshal call ended: "none", "running", "ok", "error", "fatal"

callVars == <<calls, parsers>>

parseVars == <<input, vres, f0, ri, p0, r1, p1, r2, p2, cursor, matched, callVars>>

cacheVars == <<cache, mu, realEnc, stack, gstate, genc, visible, builds>>

marshalVars == <<mval, merr, mxml, mout, heap, estack, ebuf, eout, pools>>

vars == <<parseVars, cacheVars, marshalVars>>

\* the render pool after a render that took buffer b and wrote n bytes,
\* the buffer ending with capacity c
RenderPooled(b, c) == [pools EXCEPT !.render = putBuffer(pools.render \ {b}, c)]

\* the marshal pool after a Marshal that took buffer b, which ended with
\* capacity c
MarshalPooled(b, c) == [pools EXCEPT !.marshal = xmlBufPoolPut(pools.marshal \ {b}, c)]

\* a Parse result as the caller sees it: no tree unless the status is "ok"
NoResult == [status |-> "none", err |-> NoErr, node |-> NilNode]

ResultOf(r) == [status |-> r.status, err |-> r.err, node |-> r.node]

\* a result of the fast parser as its caller sees it
NoFastResult == [status |-> "none", err |-> NoErr, val |-> NNil]

FastResultOf(r) ==
    [status |-> IF r.ok THEN "ok" ELSE "error", err |-> r.err,
     val |-> IF r.ok THEN r.val ELSE NNil]

NoText == [done |-> FALSE, text |-> <<>>]

\* no matcher has run; a matcher's outcome on a stream it was not given
NoRun == [ok |-> FALSE, kind |-> "unset", val |-> <<>>, next |-> -1]

NoMatched == [which |-> "none", pos |-> 0, byte |-> NoRun, rune |-> NoRun]

\* the fast parser is not being stepped
NoCursor ==
    [phase |-> "idle", pos |-> 0, prev |-> 0, hi |-> -1, frames |-> <<>>,
     kind |-> "none", steps |-> 0]

\* no concurrent calls, no stepped run of the fast parser
CallIdle ==
    /\ calls = <<>>
    /\ parsers = <<>>
    /\ cursor = NoCursor
    /\ matched = NoMatched

\* no RenderIndent call yet
NoIndented == [done |-> FALSE, text |-> <<>>, prefix |-> <<>>, indent |-> <<>>]

TextOf(t) == [done |-> TRUE, text |-> t]

ParseIdle ==
    /\ input = <<>>
    /\ vres = "none"
    /\ f0 = NoFastResult
    /\ ri = NoIndented
    /\ p0 = NoResult
    /\ r1 = NoText
    /\ p1 = NoResult
    /\ r2 = NoText
    /\ p2 = NoResult
    /\ CallIdle

\* ------------------------------------------------------------------------
\* Marshal followed by Unmarshal
\* ------------------------------------------------------------------------

\* longest slice in a marshalled value
MaxSliceLen == 2

\* the strings held by string fields
StrVals ==
    { <<>>, <<"x">>, <<"&">>, <<"<">>, <<">">>, <<"\"">>, <<"'">>, <<" ", "x">> }

\* the strings held by slice elements
ElemVals == { <<"x">>, <<"&">> }

\* the numbers held by int fields
IntVals == {0, 7, 12}

MarshalTypes == {ElemType, AttrType, OptType, OuterType}

\* the xml tags of the one-field structs: each role, with and without
\* omitempty, and the skipped field
FieldTags ==
    { <<"x">>, <<"x", ",">> \o oOmitEmpty,
      <<"x", ",">> \o oAttr, <<"x", ",">> \o oAttr \o <<",">> \o oOmitEmpty,
      <<",">> \o oCharData, <<",">> \o oCharData \o <<",">> \o oOmitEmpty,
      <<",">> \o oCData, <<",">> \o oCData \o <<",">> \o oOmitEmpty,
      <<"-">> }

FieldKinds == {TString, TInt, TBool, TChan, TSlice(TString), TSlice(TChan)}

\* type F struct { X <kind> `xml:"<tag>"` }
FieldType(tag, kind) == TStruct(<<"F">>, << StructField(<<"X">>, tag, kind) >>)

FieldTypes == {FieldType(tag, kind) : tag \in FieldTags, kind \in FieldKinds}

RECURSIVE ValuesOf(_)
\* the values of type t within the bounds
ValuesOf(t) ==
    CASE t.kind = "string" -> {VString(s) : s \in StrVals}
      [] t.kind = "struct" ->
            {VStruct(f) : f \in {g \in [1..Len(t.fields) -> UNION {ValuesOf(t.fields[i].type) :
                                                                   i \in 1..Len(t.fields)}] :
                                    \A i \in 1..Len(t.fields) : g[i] \in ValuesOf(t.fields[i].type)}}
      [] t.kind = "int" -> {VInt(n) : n \in IntVals}
      [] t.kind = "bool" -> {VBool(b) : b \in BOOLEAN}
      [] t.kind = "chan" -> {VChan(n) : n \in BOOLEAN}
      [] OTHER ->
            {VSlice(TRUE, <<>>)}
                \cup {VSlice(FALSE, e) :
                         e \in UNION {[1..n -> IF t.elem[1].kind = "chan"
                                               THEN {VChan(FALSE)}
                                               ELSE {VString(s) : s \in ElemVals}] :
                                         n \in 0..MaxSliceLen}}

NoType == [kind |-> "none", name |-> <<>>, fields |-> <<>>, elem |-> <<>>]

\* no Marshal call on a pointer value
EncodeIdle ==
    /\ heap = <<>>
    /\ estack = <<>>
    /\ ebuf = <<>>
    /\ eout = "none"

MarshalIdle ==
    /\ mval = [type |-> NoType, v |-> NoValue]
    /\ merr = NoMarshalErr
    /\ pools = NoPools
    /\ mxml = NoText
    /\ mout = [status |-> "none", val |-> NoValue]
    /\ EncodeIdle

\* ------------------------------------------------------------------------
\* The encoder cache (xmlEncoderForType) under concurrent Marshal calls
\* ------------------------------------------------------------------------

\* goroutines that call Marshal concurrently, once each
NumGoroutines == 2

\* the deepest chain of non-nil pointers (non-empty slices) in a value
MaxValueDepth == 1

Goroutines == 1..NumGoroutines

\* the Go types of the model:
\*   type Node struct { Value string; Next *Node; Kids []Node }
\*   type Stamp struct{}, with func (s *Stamp) MarshalXML() ([]byte, error)
TypeNames == {"string", "Node", "*Node", "[]Node", "Stamp"}

\* reflect.Type.Kind
Kind(t) ==
    CASE t = "string" -> "string"
      [] t = "Node" -> "struct"
      [] t = "*Node" -> "ptr"
      [] t = "[]Node" -> "slice"
      [] t = "Stamp" -> "struct"

\* reflect.PointerTo(t).Implements(xmlMarshalerType) for a non-pointer t
PtrImplementsMarshaler(t) == t = "Stamp"

\* the types buildXMLEncoder(t) asks xmlEncoderForType for, in order: the
\* child-element fields of a struct, the element type of a pointer or slice
ChildTypes(t) ==
    CASE t = "string" -> <<>>
      [] t = "Node" -> <<"string", "*Node", "[]Node">>
      [] t = "*Node" -> <<"Node">>
      [] t = "[]Node" -> <<"Node">>
      [] t = "Stamp" -> <<>>

\* the types Marshal can ask an encoder for: it dereferences pointers first
AllRootTypes == {t \in TypeNames : Kind(t) # "ptr"}

\* the root types of the callers that marshal no Marshaler
RootTypes == {t \in AllRootTypes : ~PtrImplementsMarshaler(t)}

\* an encoder: the forwarding placeholder of t, or the encoder built for t
\* with the child encoders it captured
NoEnc == [ph |-> FALSE, t |-> "none", kids |-> <<>>]

PlaceholderEnc(t) == [ph |-> TRUE, t |-> t, kids |-> <<>>]

BuiltEnc(t, kids) == [ph |-> FALSE, t |-> t, kids |-> kids]

\* one active call of xmlEncoderForType(t): pc is where it stands, kids the
\* child encoders buildXMLEncoder has resolved so far
Frame(t) == [t |-> t, pc |-> "lock", kids |-> <<>>]

Top(g) == stack[g][Len(stack[g])]

SetTop(g, f) == [stack EXCEPT ![g] = [@ EXCEPT ![Len(@)] = f]]

\* a map published without the placeholder
PublishNothing(c, t) == c

\* the map as placeholders are published: copy, add the placeholder, Store
PublishPlaceholder(c, t) == [c EXCEPT ![t] = PlaceholderEnc(t)]

\* the mutex after the placeholder is published: released before the build
MutexDuringBuild(g) == 0

\* the types whose built encoder the published map holds: a Load of the map
\* (and a Lock after their Store) orders their realEnc assignments before
\* the loading goroutine
Published(c) == {t \in TypeNames : c[t] # NoEnc /\ ~c[t].ph}

CacheIdle ==
    /\ cache = [t \in TypeNames |-> NoEnc]
    /\ mu = 0
    /\ realEnc = [t \in TypeNames |-> NoEnc]
    /\ stack = [g \in Goroutines |-> <<>>]
    /\ gstate = [g \in Goroutines |-> "idle"]
    /\ genc = [g \in Goroutines |-> NoEnc]
    /\ visible = [g \in Goroutines |-> {}]
    /\ builds = [t \in TypeNames |-> 0]

\* an encoder is handed to the caller whose frames are rest: to
\* buildXMLEncoder of the calling frame, or to Marshal
Deliver(g, rest, enc) ==
    IF rest = <<>>
    THEN /\ stack' = [stack EXCEPT ![g] = <<>>]
         /\ genc' = [genc EXCEPT ![g] = enc]
         /\ gstate' = [gstate EXCEPT ![g] = "encode"]
    ELSE /\ stack' = [stack EXCEPT ![g] = [rest EXCEPT ![Len(rest)].kids = Append(@, enc)]]
         /\ gstate' = [gstate EXCEPT ![g] = "building"]
         /\ UNCHANGED genc

\* xmlEncoderForType returns enc
ReturnEnc(g, enc) == Deliver(g, SubSeq(stack[g], 1, Len(stack[g]) - 1), enc)

\* a call of xmlEncoderForType(t) from the caller whose frames are rest, up
\* to the end of its fast path: the map is loaded without the lock, a hit
\* returns at once, a miss goes on to the slow path
EnterEncoderForType(g, rest, t) ==
    /\ visible' = [visible EXCEPT ![g] = @ \cup Published(cache)]
    /\ IF cache[t] # NoEnc
       THEN Deliver(g, rest, cache[t])
       ELSE /\ stack' = [stack EXCEPT ![g] = Append(rest, Frame(t))]
            /\ gstate' = [gstate EXCEPT ![g] = "building"]
            /\ UNCHANGED genc

\* an unrecovered panic ends the program: no goroutine runs on
Crashed == \E g \in Goroutines : gstate[g] = "panic"

\* Marshal(v) up to the end of the fast path of xmlEncoderForType(rv.Type())
MarshalCall(g) ==
    /\ ~Crashed
    /\ gstate[g] = "idle"
    /\ \E t \in RootTypes : EnterEncoderForType(g, <<>>, t)
    /\ UNCHANGED <<cache, mu, realEnc, builds, parseVars, marshalVars>>

\* the same call where v may also be a Stamp
MarshalCallAny(g) ==
    /\ ~Crashed
    /\ gstate[g] = "idle"
    /\ \E t \in AllRootTypes : EnterEncoderForType(g, <<>>, t)
    /\ UNCHANGED <<cache, mu, realEnc, builds, parseVars, marshalVars>>

\* the slow path up to the build: Lock, the double check, and on a miss the
\* placeholder is published and the lock released before the build
LockAndCheck(g) ==
    /\ ~Crashed
    /\ stack[g] # <<>>
    /\ Top(g).pc = "lock"
    /\ mu = 0
    /\ visible' = [visible EXCEPT ![g] = @ \cup Published(cache)]
    /\ IF cache[Top(g).t] # NoEnc
       THEN /\ ReturnEnc(g, cache[Top(g).t])
            /\ UNCHANGED <<cache, mu>>
       ELSE /\ cache' = PublishPlaceholder(cache, Top(g).t)
            /\ mu' = MutexDuringBuild(g)
            /\ stack' = SetTop(g, [Top(g) EXCEPT !.pc = "build"])
            /\ UNCHANGED <<genc, gstate>>
    /\ UNCHANGED <<realEnc, builds, parseVars, marshalVars>>

\* buildXMLEncoder(t) asks xmlEncoderForType for the encoder of its next
\* child type; a builder never nests deeper than one call per type plus one
BuildChild(g) ==
    /\ ~Crashed
    /\ stack[g] # <<>>
    /\ Top(g).pc = "build"
    /\ Len(Top(g).kids) < Len(ChildTypes(Top(g).t))
    /\ Len(stack[g]) <= Cardinality(TypeNames)
    /\ EnterEncoderForType(g, stack[g], ChildTypes(Top(g).t)[Len(Top(g).kids) + 1])
    /\ UNCHANGED <<cache, mu, realEnc, builds, parseVars, marshalVars>>

\* realEnc = buildXMLEncoder(t): every child encoder is resolved
AssignRealEnc(g) ==
    /\ ~Crashed
    /\ stack[g] # <<>>
    /\ Top(g).pc = "build"
    /\ Len(Top(g).kids) = Len(ChildTypes(Top(g).t))
    /\ realEnc' = [realEnc EXCEPT ![Top(g).t] = BuiltEnc(Top(g).t, Top(g).kids)]
    /\ builds' = [builds EXCEPT ![Top(g).t] = @ + 1]
    /\ visible' = [visible EXCEPT ![g] = @ \cup {Top(g).t}]
    /\ stack' = SetTop(g, [Top(g) EXCEPT !.pc = "replace"])
    /\ UNCHANGED <<cache, mu, gstate, genc, parseVars, marshalVars>>

\* Lock, the real encoder replaces the placeholder in the map, Unlock,
\* return
ReplacePlaceholder(g) ==
    /\ ~Crashed
    /\ stack[g] # <<>>
    /\ Top(g).pc = "replace"
    /\ mu = 0
    /\ cache' = [cache EXCEPT ![Top(g).t] = realEnc[Top(g).t]]
    /\ visible' = [visible EXCEPT ![g] = @ \cup Published(cache)]
    /\ ReturnEnc(g, realEnc[Top(g).t])
    /\ UNCHANGED <<mu, realEnc, builds, parseVars, marshalVars>>

RECURSIVE RunsUnassigned(_, _, _)
\* enc, invoked on a value that nests d deep, calls a placeholder whose
\* realEnc the invoking goroutine reads as nil; obs are the types whose
\* assignment it observes
RunsUnassigned(enc, d, obs) ==
    IF enc.ph
    THEN enc.t \notin obs \/ RunsUnassigned(realEnc[enc.t], d, obs)
    ELSE CASE Kind(enc.t) = "string" -> FALSE
           [] Kind(enc.t) = "struct" ->
                \E i \in 1..Len(enc.kids) : RunsUnassigned(enc.kids[i], d, obs)
           [] OTHER -> d > 0 /\ RunsUnassigned(enc.kids[1], d - 1, obs)

\* the realEnc assignments made so far
Assigned == {t \in TypeNames : realEnc[t] # NoEnc}

\* the builds a run of enc makes: the encoder of buildXMLAddrMarshalerEnc,
\* run on a value whose address cannot be taken, builds the routine of its
\* type again with buildXMLEncoderNoMarshaler, on every run
FallbackBuilds(enc, addressable) ==
    IF ~enc.ph /\ PtrImplementsMarshaler(enc.t) /\ ~addressable
    THEN [builds EXCEPT ![enc.t] = @ + 1] ELSE builds

\* Marshal invokes the encoder it obtained, on a value that nests d deep.
\* A placeholder reads realEnc without synchronisation: an assignment
\* ordered before the goroutine is observed, one that is not ordered may or
\* may not be (the fewer are observed the more calls find nil, so the two
\* extremes give every outcome).  Calling a nil realEnc panics.  Marshal
\* returns and its locals are gone.
Invoke(g) ==
    /\ ~Crashed
    /\ gstate[g] = "encode"
    /\ \E d \in 0..MaxValueDepth : \E obs \in {visible[g] \cap Assigned, Assigned} :
          /\ gstate' = [gstate EXCEPT ![g] =
                           IF RunsUnassigned(genc[g], d, obs) THEN "panic" ELSE "done"]
    /\ \E addressable \in BOOLEAN : builds' = FallbackBuilds(genc[g], addressable)
    /\ genc' = [genc EXCEPT ![g] = NoEnc]
    /\ visible' = [visible EXCEPT ![g] = {}]
    /\ UNCHANGED <<cache, mu, realEnc, stack, parseVars, marshalVars>>

CacheInit == ParseIdle /\ CacheIdle /\ MarshalIdle

CacheNext ==
    \E g \in Goroutines :
        \/ MarshalCall(g)
        \/ LockAndCheck(g)
        \/ BuildChild(g)
        \/ AssignRealEnc(g)
        \/ ReplacePlaceholder(g)
        \/ Invoke(g)

CacheSpec == CacheInit /\ [][CacheNext]_vars

\* the same machine with callers that also marshal Stamp values
MarshalerNext ==
    \E g \in Goroutines :
        \/ MarshalCallAny(g)
        \/ LockAndCheck(g)
        \/ BuildChild(g)
        \/ AssignRealEnc(g)
        \/ ReplacePlaceholder(g)
        \/ Invoke(g)

MarshalerSpec == CacheInit /\ [][MarshalerNext]_vars

\* the Go scheduler keeps running goroutines while one of them can run
CacheFairSpec == CacheSpec /\ WF_vars(CacheNext)

\* ------------------------------------------------------------------------
\* Parse / Validate / Render on one input
\* ------------------------------------------------------------------------

ParseInit ==
    /\ input \in Inputs(MaxFrags)
    /\ vres = "none"
    /\ f0 = NoFastResult
    /\ ri = NoIndented
    /\ p0 = NoResult
    /\ r1 = NoText
    /\ p1 = NoResult
    /\ r2 = NoText
    /\ p2 = NoResult
    /\ CallIdle
    /\ CacheIdle
    /\ MarshalIdle

\* err := xml.Validate(input)
DoValidate ==
    /\ vres = "none"
    /\ vres' = IF Validate(input) THEN "ok" ELSE "error"
    /\ UNCHANGED <<input, f0, ri, p0, r1, p1, r2, p2, cursor, matched, callVars, cacheVars, marshalVars>>

\* value, err := fastparser.NewParser(input).Parse()
DoFastParse ==
    /\ f0.status = "none"
    /\ f0' = FastResultOf(fast_Parse(input))
    /\ UNCHANGED <<input, vres, ri, p0, r1, p1, r2, p2, cursor, matched, callVars, cacheVars, marshalVars>>

\* node, err := xml.Parse(input)
DoParse ==
    /\ p0.status = "none"
    /\ p0' = ResultOf(Parse(input))
    /\ UNCHANGED <<input, vres, f0, ri, r1, p1, r2, p2, cursor, matched, callVars, cacheVars, marshalVars>>

\* bytes, _ := xml.Render(node) on the tree Parse returned
DoRender ==
    /\ p0.status = "ok"
    /\ ~r1.done
    /\ r1' = TextOf(Render(p0.node))
    /\ \E b \in Gettable(pools.render) : \E c \in Grown(b, Len(Render(p0.node))) :
          pools' = RenderPooled(b, c)
    /\ UNCHANGED <<input, vres, f0, ri, p0, p1, r2, p2, cursor, matched, callVars, cacheVars,
                   mval, merr, mxml, mout, heap, estack, ebuf, eout>>

\* xml.Parse on the rendered bytes
DoReparse ==
    /\ r1.done
    /\ p1.status = "none"
    /\ p1' = ResultOf(Parse(r1.text))
    /\ UNCHANGED <<input, vres, f0, ri, p0, r1, r2, p2, cursor, matched, callVars, cacheVars, marshalVars>>

\* a second xml.Render, on the re-parsed tree
DoRender2 ==
    /\ p1.status = "ok"
    /\ ~r2.done
    /\ r2' = TextOf(Render(p1.node))
    /\ \E b \in Gettable(pools.render) : \E c \in Grown(b, Len(Render(p1.node))) :
          pools' = RenderPooled(b, c)
    /\ UNCHANGED <<input, vres, f0, ri, p0, r1, p1, p2, cursor, matched, callVars, cacheVars,
                   mval, merr, mxml, mout, heap, estack, ebuf, eout>>

\* xml.Parse on the bytes of the second render
DoReparse2 ==
    /\ r2.done
    /\ p2.status = "none"
    /\ p2' = ResultOf(Parse(r2.text))
    /\ UNCHANGED <<input, vres, f0, ri, p0, r1, p1, r2, cursor, matched, callVars, cacheVars, marshalVars>>

ParseNext == DoValidate \/ DoFastParse \/ DoParse \/ DoRender \/ DoReparse

ParseSpec == ParseInit /\ [][ParseNext]_vars

\* ------------------------------------------------------------------------
\* Validate, the fast parser and Parse on the two forms of an empty element
\* ------------------------------------------------------------------------

FormInit ==
    /\ input \in FormDocs
    /\ vres = "none"
    /\ f0 = NoFastResult
    /\ ri = NoIndented
    /\ p0 = NoResult
    /\ r1 = NoText
    /\ p1 = NoResult
    /\ r2 = NoText
    /\ p2 = NoResult
    /\ CallIdle
    /\ CacheIdle
    /\ MarshalIdle

FormNext == DoValidate \/ DoFastParse \/ DoParse

FormSpec == FormInit /\ [][FormNext]_vars

\* ------------------------------------------------------------------------
\* Validate and the fast parser on documents of repeated children
\* ------------------------------------------------------------------------

RepeatInit ==
    /\ input \in RepeatDocs
    /\ vres = "none"
    /\ f0 = NoFastResult
    /\ ri = NoIndented
    /\ p0 = NoResult
    /\ r1 = NoText
    /\ p1 = NoResult
    /\ r2 = NoText
    /\ p2 = NoResult
    /\ CallIdle
    /\ CacheIdle
    /\ MarshalIdle

RepeatNext == DoValidate \/ DoFastParse

RepeatSpec == RepeatInit /\ [][RepeatNext]_vars

\* ------------------------------------------------------------------------
\* The fast parser stepped through its loops: one action per iteration of a
\* loop of Parse and parseElement, a child element being entered by the
\* iteration of the content loop that finds it.
\* ------------------------------------------------------------------------

\* the cursor after a step that ends at r in the given phase; a read outside
\* data ends the run in a panic
Stepped(phase, r, frames, kind) ==
    [phase |-> IF r.hi >= Len(input) THEN "panic" ELSE phase,
     pos |-> r.pos, prev |-> cursor.pos, hi |-> r.hi, frames |-> frames,
     kind |-> kind, steps |-> cursor.steps + 1]

\* Parse returns an error
Failed(r) == Stepped("error", r, <<>>, "return")

\* parseElement returns its map: to the content loop of the parent, or to Parse
Returned(r) ==
    Stepped(IF Len(cursor.frames) = 1 THEN "trailer" ELSE "content", r,
            SubSeq(cursor.frames, 1, Len(cursor.frames) - 1), "return")

\* the head of parseElement: "<", the name; the attribute loop comes next
Opened(pos, hi) ==
    LET Name(lt, n) ==
            IF ~n.ok THEN Failed(n)
            ELSE Stepped("attrs", n, Append(cursor.frames, Slice(input, lt.pos, n.pos)),
                         "descend")
        Lt(lt) == IF ~lt.ok THEN Failed(lt) ELSE Name(lt, scan_readName(input, lt.pos, lt.hi))
    IN Lt(scan_consume(input, pos, "<", hi))

CursorInit ==
    /\ input \in ScanInputs(MaxScanFrags)
    /\ cursor = [phase |-> "start", pos |-> 0, prev |-> 0, hi |-> -1, frames |-> <<>>,
                 kind |-> "none", steps |-> 0]
    /\ vres = "none"
    /\ f0 = NoFastResult
    /\ ri = NoIndented
    /\ p0 = NoResult
    /\ r1 = NoText
    /\ p1 = NoResult
    /\ r2 = NoText
    /\ p2 = NoResult
    /\ calls = <<>>
    /\ parsers = <<>>
    /\ matched = NoMatched
    /\ CacheIdle
    /\ MarshalIdle

\* Parse up to skipComments: whitespace, the end-of-input check, the XML
\* declaration, whitespace
ParseStart ==
    /\ cursor.phase = "start"
    /\ LET Decl(d) ==
               IF ~d.ok THEN Failed(d)
               ELSE Stepped("comments", scan_skipWhitespace(input, d.pos, d.hi), <<>>, "exit")
           Peeked(ws, pk) ==
               IF pk.ok THEN Decl(scan_skipXMLDeclaration(input, ws.pos, pk.hi))
               ELSE Decl(SRes(TRUE, ws.pos, pk.hi))
           Skipped(ws) ==
               IF ws.pos >= Len(input) THEN Failed(ws)
               ELSE Peeked(ws, scan_peekString(input, ws.pos, sXmlDecl, ws.hi))
       IN cursor' = Skipped(scan_skipWhitespace(input, cursor.pos, -1))
    /\ UNCHANGED <<input, vres, f0, ri, p0, r1, p1, r2, p2, matched, callVars, cacheVars, marshalVars>>

\* one test of skipComments' loop condition and, when it holds, one iteration:
\* skipComment with its error ignored, skipWhitespace
SkipCommentsStep ==
    /\ cursor.phase = "comments"
    /\ LET Comment(c) ==
               Stepped("comments", scan_skipWhitespace(input, c.pos, c.hi), <<>>, "iterate")
           Peeked(pk) ==
               IF pk.ok THEN Comment(scan_skipComment(input, cursor.pos, pk.hi))
               ELSE Stepped("root", pk, <<>>, "exit")
       IN cursor' = Peeked(scan_peekString(input, cursor.pos, sCommentOpen, -1))
    /\ UNCHANGED <<input, vres, f0, ri, p0, r1, p1, r2, p2, matched, callVars, cacheVars, marshalVars>>

\* Parse calls parseElement for the root
OpenRoot ==
    /\ cursor.phase = "root"
    /\ cursor' = Opened(cursor.pos, -1)
    /\ UNCHANGED <<input, vres, f0, ri, p0, r1, p1, r2, p2, matched, callVars, cacheVars, marshalVars>>

\* one iteration of the attribute loop of parseElement
AttrStep ==
    /\ cursor.phase = "attrs"
    /\ LET Attr(a) == IF ~a.ok THEN Failed(a) ELSE Stepped("attrs", a, cursor.frames, "iterate")
           Gt(ws, hi) ==
               IF ws.pos < Len(input) /\ Byte(input, ws.pos) = ">"
               THEN Stepped("content", SRes(TRUE, ws.pos + 1, Rd(hi, ws.pos)),
                            cursor.frames, "exit")
               ELSE Attr(scan_parseAttribute(input, ws.pos, Rd(hi, ws.pos)))
           SelfClose(ws, pk) ==
               IF pk.ok THEN Returned(SRes(TRUE, ws.pos + 2, pk.hi)) ELSE Gt(ws, pk.hi)
           Skipped(ws) ==
               IF ws.pos >= Len(input) THEN Failed(ws)
               ELSE SelfClose(ws, scan_peekString(input, ws.pos, sSelfClose, ws.hi))
       IN cursor' = Skipped(scan_skipWhitespace(input, cursor.pos, -1))
    /\ UNCHANGED <<input, vres, f0, ri, p0, r1, p1, r2, p2, matched, callVars, cacheVars, marshalVars>>

\* one iteration of the content loop of parseElement: the closing tag, a
\* comment, a CDATA section, the head of a child element, or text
ContentStep ==
    /\ cursor.phase = "content"
    /\ LET elementName == cursor.frames[Len(cursor.frames)]
           ClosingGt(g) == IF ~g.ok THEN Failed(g) ELSE Returned(g)
           ClosingWs(ws) == ClosingGt(scan_consume(input, ws.pos, ">", ws.hi))
           ClosingName(from, cn) ==
               IF Slice(input, from, cn.pos) # elementName THEN Failed(cn)
               ELSE ClosingWs(scan_skipWhitespace(input, cn.pos, cn.hi))
           Continue(r) ==
               IF ~r.ok THEN Failed(r) ELSE Stepped("content", r, cursor.frames, "iterate")
           ChildName(ws, cn) ==
               IF ~cn.ok THEN Failed(SRes(FALSE, ws.pos, cn.hi))
               ELSE Opened(ws.pos, cn.hi)
           Lt(ws, hi) ==
               IF Byte(input, ws.pos) = "<"
               THEN ChildName(ws, scan_readName(input, ws.pos + 1, Rd(hi, ws.pos)))
               ELSE Continue(scan_parseText(input, ws.pos, Rd(hi, ws.pos)))
           CData(ws, pk) ==
               IF pk.ok THEN Continue(scan_parseCDataContent(input, ws.pos, pk.hi))
               ELSE Lt(ws, pk.hi)
           Comment(ws, pk) ==
               IF pk.ok THEN Continue(scan_skipComment(input, ws.pos, pk.hi))
               ELSE CData(ws, scan_peekString(input, ws.pos, sCDataOpen, pk.hi))
           Closing(ws, pk) ==
               IF pk.ok THEN ClosingName(ws.pos + 2, scan_readName(input, ws.pos + 2, pk.hi))
               ELSE Comment(ws, scan_peekString(input, ws.pos, sCommentOpen, pk.hi))
           Skipped(ws) ==
               IF ws.pos >= Len(input) THEN Failed(ws)
               ELSE Closing(ws, scan_peekString(input, ws.pos, sEndTagOpen, ws.hi))
       IN cursor' = Skipped(scan_skipWhitespace(input, cursor.pos, -1))
    /\ UNCHANGED <<input, vres, f0, ri, p0, r1, p1, r2, p2, matched, callVars, cacheVars, marshalVars>>

\* one iteration of skipCommentsAndWhitespace after the root element; when
\* the loop returns, Parse's check that the input has ended
TrailerStep ==
    /\ cursor.phase = "trailer"
    /\ LET here == SRes(TRUE, cursor.pos, -1)
           Whitespace(hi) ==
               IF isWhitespace(Byte(input, cursor.pos))
               THEN Stepped("trailer", SRes(TRUE, cursor.pos + 1, Rd(hi, cursor.pos)),
                            <<>>, "iterate")
               ELSE Failed(SRes(FALSE, cursor.pos, Rd(hi, cursor.pos)))
           Peeked(pk) ==
               IF pk.ok
               THEN Stepped("trailer", scan_skipComment(input, cursor.pos, pk.hi), <<>>, "iterate")
               ELSE Whitespace(pk.hi)
       IN cursor' = IF cursor.pos >= Len(input) THEN Stepped("value", here, <<>>, "return")
                    ELSE Peeked(scan_peekString(input, cursor.pos, sCommentOpen, -1))
    /\ UNCHANGED <<input, vres, f0, ri, p0, r1, p1, r2, p2, matched, callVars, cacheVars, marshalVars>>

CursorNext ==
    ParseStart \/ SkipCommentsStep \/ OpenRoot \/ AttrStep \/ ContentStep \/ TrailerStep

CursorSpec == CursorInit /\ [][CursorNext]_vars

\* ------------------------------------------------------------------------
\* A render/parse pipeline that starts from a tree built by the caller
\* ------------------------------------------------------------------------

\* deepest nesting of a caller-built tree
MaxDepth == 1

\* attribute values and text of caller-built trees
TreeValues == { <<"x">>, <<"&">>, <<"\"">> }

AttrKey == <<"@", "k">>

ChildKeyC == <<"c">>

RECURSIVE Trees(_)
\* the Object trees of depth at most d: an optional attribute @k, optional
\* #text, optional #cdata and an optional child c
Trees(d) ==
    LET leafChoices ==
            { [a |-> a, x |-> x, cd |-> cd] :
                a \in TreeValues \cup {<<"absent">>},
                x \in TreeValues \cup {<<"absent">>},
                cd \in {<<"a", "<", "b">>, <<"absent">>} }
        Base(ch) ==
            LET p1a == IF ch.a = <<"absent">> THEN EmptyProps
                       ELSE Put(EmptyProps, AttrKey, NewLiteralNode(ch.a))
                p2a == IF ch.x = <<"absent">> THEN p1a ELSE Put(p1a, TextKey, NewLiteralNode(ch.x))
            IN IF ch.cd = <<"absent">> THEN p2a ELSE Put(p2a, CDataKey, NewLiteralNode(ch.cd))
    IN IF d = 0 THEN {NewObjectNode(Base(ch)) : ch \in leafChoices}
       ELSE {NewObjectNode(Base(ch)) : ch \in leafChoices}
            \cup {NewObjectNode(Put(Base(ch), ChildKeyC, sub)) :
                     ch \in leafChoices, sub \in Trees(d - 1)}

TreeInit ==
    /\ input = <<>>
    /\ vres = "none"
    /\ f0 = NoFastResult
    /\ ri = NoIndented
    /\ p0 \in {[status |-> "ok", err |-> NoErr, node |-> t] : t \in Trees(MaxDepth)}
    /\ r1 = NoText
    /\ p1 = NoResult
    /\ r2 = NoText
    /\ p2 = NoResult
    /\ CallIdle
    /\ CacheIdle
    /\ MarshalIdle

\* the line prefixes and indent units given to RenderIndent
Prefixes == { <<>>, <<"p">> }

Indents == { <<" ", " ">>, <<"\t">> }

\* bytes, _ := xml.RenderIndent(node, prefix, indent) on the caller's tree
DoRenderIndent ==
    /\ p0.status = "ok"
    /\ ~ri.done
    /\ \E prefix \in Prefixes, indent \in Indents :
          /\ ri' = [done |-> TRUE, text |-> RenderIndent(p0.node, prefix, indent),
                    prefix |-> prefix, indent |-> indent]
          /\ \E b \in Gettable(pools.render) :
                \E c \in Grown(b, Len(RenderIndent(p0.node, prefix, indent))) :
                   pools' = RenderPooled(b, c)
    /\ UNCHANGED <<input, vres, f0, p0, r1, p1, r2, p2, cursor, matched, callVars, cacheVars,
                   mval, merr, mxml, mout, heap, estack, ebuf, eout>>

TreeNext == DoRender \/ DoReparse \/ DoRender2 \/ DoReparse2 \/ DoRenderIndent

TreeSpec == TreeInit /\ [][TreeNext]_vars

\* ------------------------------------------------------------------------
\* Render of trees with several attributes and several child keys
\* ------------------------------------------------------------------------

\* the attribute names and the child keys of those trees, each in ascending
\* byte order
SortedAttrNames == << <<"d">>, <<"k">>, <<"k", "a">> >>

SortedChildKeys == << <<"c">>, <<"c", "b">>, <<"d">> >>

\* the i-th member of an Array child
Member(i) == NewLiteralNode(<<DigitOf(i)>>)

\* a child: absent, one element, or an Array of 2..MaxChildren members
ChildChoices ==
    {NilNode, Member(1)} \cup {NewArrayDataNode([i \in 1..n |-> Member(i)]) : n \in 2..MaxChildren}

RECURSIVE WithAttrs(_, _, _)
\* props with the attributes whose index is in present
WithAttrs(props, present, i) ==
    IF i > Len(SortedAttrNames) THEN props
    ELSE WithAttrs(IF i \in present
                   THEN Put(props, <<"@">> \o SortedAttrNames[i], NewLiteralNode(<<"v">>))
                   ELSE props, present, i + 1)

RECURSIVE WithChildren(_, _, _)
\* props with the children chosen in ch, NilNode standing for no child
WithChildren(props, ch, i) ==
    IF i > Len(SortedChildKeys) THEN props
    ELSE WithChildren(IF ch[i] # NilNode THEN Put(props, SortedChildKeys[i], ch[i]) ELSE props,
                      ch, i + 1)

SortCases ==
    { [node |-> NewObjectNode(WithChildren(WithAttrs(EmptyProps, present, 1), ch, 1)),
       attrs |-> present, children |-> ch] :
          present \in SUBSET (1..Len(SortedAttrNames)),
          ch \in [1..Len(SortedChildKeys) -> ChildChoices] }

SortTrees == { c.node : c \in SortCases }

SortOf(node) == CHOOSE c \in SortCases : c.node = node

SortInit ==
    /\ input = <<>>
    /\ vres = "none"
    /\ f0 = NoFastResult
    /\ ri = NoIndented
    /\ p0 \in {[status |-> "ok", err |-> NoErr, node |-> t] : t \in SortTrees}
    /\ r1 = NoText
    /\ p1 = NoResult
    /\ r2 = NoText
    /\ p2 = NoResult
    /\ CallIdle
    /\ CacheIdle
    /\ MarshalIdle

SortNext == DoRender

SortSpec == SortInit /\ [][SortNext]_vars

\* ------------------------------------------------------------------------
\* NameMatcher and TextMatcher on a stream at any byte offset of its input,
\* the stream being a ByteStream or a plain Stream
\* ------------------------------------------------------------------------

MaxMatchLen == 4

\* a name-start letter, a name character that cannot start a name, the text
\* delimiter, and the two bytes of a two-byte character
MatchBytes == {"a", "-", "<", LeadByte, ContByte}

MatchInputs(n) == UNION {[1..k -> MatchBytes] : k \in 0..n}

\* the matcher and the offset of this run: one matcher is run at one offset
\* of the input, on either kind of stream
SameRun(which, pos) ==
    matched.which = "none" \/ (matched.which = which /\ matched.pos = pos)

\* what the matcher returned, kept beside what it returned on the other kind
\* of stream
Recorded(which, pos, isByteStream, tok) ==
    IF isByteStream THEN [matched EXCEPT !.which = which, !.pos = pos, !.byte = tok]
    ELSE [matched EXCEPT !.which = which, !.pos = pos, !.rune = tok]

MatchInit ==
    /\ input \in MatchInputs(MaxMatchLen)
    /\ vres = "none"
    /\ f0 = NoFastResult
    /\ ri = NoIndented
    /\ p0 = NoResult
    /\ r1 = NoText
    /\ p1 = NoResult
    /\ r2 = NoText
    /\ p2 = NoResult
    /\ CallIdle
    /\ CacheIdle
    /\ MarshalIdle

DoNameMatcher ==
    /\ \E pos \in 0..Len(input) : \E isByteStream \in BOOLEAN :
          /\ SameRun("name", pos)
          /\ matched' = Recorded("name", pos, isByteStream,
                                 IF isByteStream THEN nameMatcherByte(input, pos)
                                 ELSE nameMatcherRune(input, pos))
    /\ UNCHANGED <<input, vres, f0, ri, p0, r1, p1, r2, p2, cursor, callVars, cacheVars, marshalVars>>

DoTextMatcher ==
    /\ \E pos \in 0..Len(input) : \E isByteStream \in BOOLEAN :
          /\ SameRun("text", pos)
          /\ matched' = Recorded("text", pos, isByteStream,
                                 IF isByteStream THEN textMatcherByte(input, pos)
                                 ELSE textMatcherRune(input, pos))
    /\ UNCHANGED <<input, vres, f0, ri, p0, r1, p1, r2, p2, cursor, callVars, cacheVars, marshalVars>>

MatchNext == DoNameMatcher \/ DoTextMatcher

MatchSpec == MatchInit /\ [][MatchNext]_vars

\* ------------------------------------------------------------------------
\* Unmarshal into a target that already holds a value
\* ------------------------------------------------------------------------

\* well-formed documents for an Elem: <a><v>x</v></a> and <a><v>k</v></a>
TargetBases ==
    { OpenTag(<<"a">>) \o OpenTag(<<"v">>) \o <<c>> \o CloseTag(<<"v">>) \o CloseTag(<<"a">>) :
        c \in {"x", "k"} }

\* what leaves a document well-formed when it follows the root element
GoodTrailers == { <<>>, <<" ">>, sCommentOpen \o <<"c">> \o sCommentClose }

\* what does not: text, a second element, an end tag, an unterminated comment
\* and an unterminated CDATA section
BadTrailers ==
    { <<"x">>, <<"<", "b", "/", ">">>, CloseTag(<<"a">>), sCommentOpen, sCommentOpen \o <<"c">>,
      sCDataOpen }

\* <a><v>x</v>...</b>: the root closed under another name, the end tag
\* directly after the child or after a comment
MismatchedRoots ==
    { OpenTag(<<"a">>) \o OpenTag(<<"v">>) \o <<"x">> \o CloseTag(<<"v">>) \o mid \o CloseTag(<<"b">>) :
        mid \in {<<>>, sCommentOpen \o <<"c">> \o sCommentClose} }

\* the inputs given to Unmarshal, each with whether it is well-formed XML:
\* the well-formed documents, every proper prefix of one, a document followed
\* by what may not follow it, and the mismatched roots
TargetCases ==
    {[doc |-> b \o g, wellFormed |-> TRUE] : b \in TargetBases, g \in GoodTrailers}
        \cup UNION {{[doc |-> Slice(b, 0, n), wellFormed |-> FALSE] : n \in 0..(Len(b) - 1)} :
                       b \in TargetBases}
        \cup {[doc |-> b \o t, wellFormed |-> FALSE] : b \in TargetBases, t \in BadTrailers}
        \cup {[doc |-> m, wellFormed |-> FALSE] : m \in MismatchedRoots}

TargetDocs == { c.doc : c \in TargetCases }

IsWellFormed(d) == \E c \in TargetCases : c.doc = d /\ c.wellFormed

\* the values the target holds before the call: Elem{} and Elem{V: "o"}
TargetValues == { VStruct(<< VString(<<>>) >>), VStruct(<< VString(<<"o">>) >>) }

TargetInit ==
    /\ input \in TargetDocs
    /\ mval \in {[type |-> ElemType, v |-> v] : v \in TargetValues}
    /\ vres = "none"
    /\ f0 = NoFastResult
    /\ ri = NoIndented
    /\ p0 = NoResult
    /\ r1 = NoText
    /\ p1 = NoResult
    /\ r2 = NoText
    /\ p2 = NoResult
    /\ CallIdle
    /\ CacheIdle
    /\ merr = NoMarshalErr
    /\ pools = NoPools
    /\ mxml = NoText
    /\ mout = [status |-> "none", val |-> NoValue]
    /\ EncodeIdle

\* err := xml.Unmarshal(input, &v), v holding mval.v
DoUnmarshalInto ==
    /\ mout.status = "none"
    /\ mout' = UnmarshalInto(input, mval.type, mval.v)
    /\ UNCHANGED <<mval, merr, pools, mxml, heap, estack, ebuf, eout, parseVars, cacheVars>>

TargetNext == DoUnmarshalInto

TargetSpec == TargetInit /\ [][TargetNext]_vars

\* ------------------------------------------------------------------------
\* Marshal a Go value, then Unmarshal the bytes into a zero value of its type
\* ------------------------------------------------------------------------

MarshalInit ==
    /\ mval \in UNION {{[type |-> t, v |-> v] : v \in ValuesOf(t)} : t \in MarshalTypes}
    /\ merr = NoMarshalErr
    /\ pools = NoPools
    /\ mxml = NoText
    /\ mout = [status |-> "none", val |-> NoValue]
    /\ EncodeIdle
    /\ ParseIdle
    /\ CacheIdle

\* data, _ := xml.Marshal(v)
DoMarshal ==
    /\ ~mxml.done
    /\ merr' = encodeError(mval.type, mval.v)
    /\ mxml' = TextOf(IF encodeError(mval.type, mval.v).set THEN <<>>
                      ELSE Marshal(mval.type, mval.v))
    /\ \E b \in Gettable(pools.marshal) :
          \E c \in Grown(b, Len(Marshal(mval.type, mval.v))) : pools' = MarshalPooled(b, c)
    /\ UNCHANGED <<mval, mout, heap, estack, ebuf, eout, parseVars, cacheVars>>

\* err := xml.Unmarshal(data, &v2)
DoUnmarshal ==
    /\ mxml.done
    /\ mout.status = "none"
    /\ mout' = Unmarshal(mxml.text, mval.type)
    /\ UNCHANGED <<mval, merr, pools, mxml, heap, estack, ebuf, eout, parseVars, cacheVars>>

MarshalNext == DoMarshal \/ DoUnmarshal

MarshalSpec == MarshalInit /\ [][MarshalNext]_vars

\* Marshal of the one-field structs
FieldInit ==
    /\ mval \in UNION {{[type |-> t, v |-> v] : v \in ValuesOf(t)} : t \in FieldTypes}
    /\ merr = NoMarshalErr
    /\ pools = NoPools
    /\ mxml = NoText
    /\ mout = [status |-> "none", val |-> NoValue]
    /\ EncodeIdle
    /\ ParseIdle
    /\ CacheIdle

FieldNext == DoMarshal

FieldSpec == FieldInit /\ [][FieldNext]_vars

\* ------------------------------------------------------------------------
\* The buffer pools under calls whose output has a given length
\* ------------------------------------------------------------------------

\* lengths of the outputs of those calls, in bytes: short, at the limit of
\* putBuffer, one byte above it
OutputSizes == {512, MaxPooledCap, MaxPooledCap + 1}

PoolInit ==
    /\ pools = NoPools
    /\ mval = [type |-> NoType, v |-> NoValue]
    /\ merr = NoMarshalErr
    /\ mxml = NoText
    /\ mout = [status |-> "none", val |-> NoValue]
    /\ EncodeIdle
    /\ ParseIdle
    /\ CacheIdle

\* xml.Render or xml.RenderIndent of a tree that renders to n bytes: getBuffer,
\* renderNode, the deferred putBuffer
PoolRender ==
    /\ \E n \in OutputSizes : \E b \in Gettable(pools.render) : \E c \in Grown(b, n) :
          pools' = RenderPooled(b, c)
    /\ UNCHANGED <<mval, merr, mxml, mout, heap, estack, ebuf, eout, parseVars, cacheVars>>

\* xml.Marshal of a value that encodes to n bytes: xmlBufPool.Get, the
\* encoder, xmlBufPool.Put
PoolMarshal ==
    /\ \E n \in OutputSizes : \E b \in Gettable(pools.marshal) : \E c \in Grown(b, n) :
          pools' = MarshalPooled(b, c)
    /\ UNCHANGED <<mval, merr, mxml, mout, heap, estack, ebuf, eout, parseVars, cacheVars>>

PoolNext == PoolRender \/ PoolMarshal

PoolSpec == PoolInit /\ [][PoolNext]_vars

\* ------------------------------------------------------------------------
\* Marshal of a value with pointers:
\*   type Node struct { Next *Node `xml:"next"`; Kids []*Node `xml:"kid"` }
\* ------------------------------------------------------------------------

\* number of Node objects on the heap
MaxObjects == 2

\* longest Kids slice
MaxKids == 1

\* nested encoder calls the goroutine stack has room for
MaxStackFrames == 4

Addrs == 1..MaxObjects

\* a pointer: an address, or 0 for nil
Pointers == 0..MaxObjects

Heaps ==
    [Addrs -> [next : Pointers, kids : UNION {[1..n -> Pointers] : n \in 0..MaxKids}]]

\* the pointers the struct encoder of Node follows from object a, in field
\* order, each with the element name of its field
ChildrenOf(h, a) ==
    <<[ptr |-> h[a].next, name |-> <<"n", "e", "x", "t">>]>>
    \o [i \in 1..Len(h[a].kids) |-> [ptr |-> h[a].kids[i], name |-> <<"k", "i", "d">>]]

EncFrame(a, name) == [obj |-> a, name |-> name, pc |-> 1]

\* xml.Marshal(&node): the pointer is followed, the root element is named
\* after the struct type, and the struct encoder opens the element
EncodeCall ==
    /\ eout = "none"
    /\ heap # <<>>
    /\ eout' = "running"
    /\ estack' = <<EncFrame(1, <<"N", "o", "d", "e">>)>>
    /\ ebuf' = OpenTag(<<"N", "o", "d", "e">>)
    /\ UNCHANGED <<heap, mval, merr, pools, mxml, mout, parseVars, cacheVars>>

\* the pointer encoder on a nil pointer: a self-closing element
EncodeNil ==
    /\ eout = "running"
    /\ LET top == estack[Len(estack)]
           ch == ChildrenOf(heap, top.obj)
       IN /\ top.pc <= Len(ch)
          /\ ch[top.pc].ptr = 0
          /\ ebuf' = ebuf \o emptyElement(ch[top.pc].name)
          /\ estack' = [estack EXCEPT ![Len(estack)].pc = top.pc + 1]
    /\ UNCHANGED <<heap, eout, mval, merr, pools, mxml, mout, parseVars, cacheVars>>

\* the pointer encoder on a non-nil pointer: the struct encoder runs on the
\* object pointed to, whether or not an encoder up the stack is already
\* writing that object
EncodeElem ==
    /\ eout = "running"
    /\ Len(estack) < MaxStackFrames
    /\ LET top == estack[Len(estack)]
           ch == ChildrenOf(heap, top.obj)
       IN /\ top.pc <= Len(ch)
          /\ ch[top.pc].ptr # 0
          /\ ebuf' = ebuf \o OpenTag(ch[top.pc].name)
          /\ estack' = Append(estack, EncFrame(ch[top.pc].ptr, ch[top.pc].name))
    /\ UNCHANGED <<heap, eout, mval, merr, pools, mxml, mout, parseVars, cacheVars>>

\* the same call when the goroutine stack is exhausted: the runtime ends the
\* process with "fatal error: stack overflow"; no error value is returned
StackOverflow ==
    /\ eout = "running"
    /\ Len(estack) = MaxStackFrames
    /\ LET top == estack[Len(estack)]
           ch == ChildrenOf(heap, top.obj)
       IN /\ top.pc <= Len(ch)
          /\ ch[top.pc].ptr # 0
    /\ eout' = "fatal"
    /\ UNCHANGED <<heap, estack, ebuf, mval, merr, pools, mxml, mout, parseVars, cacheVars>>

\* the struct encoder has written its last child: it closes the element and
\* returns; the outermost return is the return of Marshal
EncodeReturn ==
    /\ eout = "running"
    /\ LET n == Len(estack)
           top == estack[n]
       IN /\ top.pc > Len(ChildrenOf(heap, top.obj))
          /\ ebuf' = ebuf \o CloseTag(top.name)
          /\ estack' = IF n = 1 THEN <<>>
                        ELSE [SubSeq(estack, 1, n - 1) EXCEPT ![n - 1].pc = estack[n - 1].pc + 1]
          /\ eout' = IF n = 1 THEN "ok" ELSE "running"
          /\ \E c \in Grown(NewBufferCap, Len(ebuf) + Len(CloseTag(top.name))) :
                pools' = IF n = 1 THEN MarshalPooled(NewBufferCap, c) ELSE pools
    /\ UNCHANGED <<heap, mval, merr, mxml, mout, parseVars, cacheVars>>

EncodeInit ==
    /\ heap \in Heaps
    /\ estack = <<>>
    /\ ebuf = <<>>
    /\ eout = "none"
    /\ mval = [type |-> NoType, v |-> NoValue]
    /\ merr = NoMarshalErr
    /\ pools = NoPools
    /\ mxml = NoText
    /\ mout = [status |-> "none", val |-> NoValue]
    /\ ParseIdle
    /\ CacheIdle

EncodeNext == EncodeCall \/ EncodeNil \/ EncodeElem \/ StackOverflow \/ EncodeReturn

EncodeSpec == EncodeInit /\ [][EncodeNext]_vars

\* ------------------------------------------------------------------------
\* Concurrent calls of Parse, ParseReader, Validate and ValidateReader
\* ------------------------------------------------------------------------

Ops == {"Parse", "ParseReader", "Validate", "ValidateReader"}

\* the inputs of the concurrent callers: two documents and a malformed one
CallInputs ==
    { <<"<", "a", "/", ">">>,
      OpenTag(<<"a">>) \o <<"x">> \o CloseTag(<<"a">>),
      OpenTag(<<"a">>) \o CloseTag(<<"b">>) }

NoParser == [kind |-> "none", data |-> <<>>, done |-> FALSE]

\* what a call returns: the error status, and the tree for the AST parser
CallResult(status, err, node) == [status |-> status, err |-> err, node |-> node]

NoCallResult == CallResult("none", NoErr, NilNode)

\* one parser object that every call uses
SharedParser(g) == 1

\* the parser object the call of goroutine g allocates: parser.NewParser and
\* fastparser.NewParser return a fresh object on every call
ParserOf(g) == g

\* p := parser.NewParser(input) / parser.NewParserFromStream(stream) /
\* fastparser.NewParser(data): a parser object over the caller's input
CallNewParser(g) ==
    /\ calls[g].pc = "start"
    /\ parsers' = [parsers EXCEPT ![ParserOf(g)] =
                      [kind |-> IF calls[g].op \in {"Parse", "ParseReader"} THEN "ast" ELSE "fast",
                       data |-> calls[g].input, done |-> FALSE]]
    /\ calls' = [calls EXCEPT ![g].pc = "parse"]
    /\ UNCHANGED <<input, vres, f0, ri, p0, r1, p1, r2, p2, cursor, matched, cacheVars, marshalVars>>

\* return p.Parse(): the parser object runs over the data it holds
CallParse(g) ==
    /\ calls[g].pc = "parse"
    /\ LET p == parsers[ParserOf(g)]
           ast == ResultOf(Parse(p.data))
           fast == FastResultOf(fast_Parse(p.data))
       IN calls' = [calls EXCEPT ![g].pc = "done",
                                 ![g].result =
                                    IF p.kind = "ast" THEN CallResult(ast.status, ast.err, ast.node)
                                    ELSE CallResult(fast.status, fast.err, NilNode)]
    /\ parsers' = [parsers EXCEPT ![ParserOf(g)].done = TRUE]
    /\ UNCHANGED <<input, vres, f0, ri, p0, r1, p1, r2, p2, cursor, matched, cacheVars, marshalVars>>

CallInit ==
    /\ calls \in [Goroutines -> {[op |-> o, input |-> d, pc |-> "start", result |-> NoCallResult] :
                                    o \in Ops, d \in CallInputs}]
    /\ parsers = [g \in Goroutines |-> NoParser]
    /\ input = <<>>
    /\ vres = "none"
    /\ f0 = NoFastResult
    /\ ri = NoIndented
    /\ p0 = NoResult
    /\ r1 = NoText
    /\ p1 = NoResult
    /\ r2 = NoText
    /\ p2 = NoResult
    /\ cursor = NoCursor
    /\ matched = NoMatched
    /\ CacheIdle
    /\ MarshalIdle

CallNext == \E g \in Goroutines : CallNewParser(g) \/ CallParse(g)

CallSpec == CallInit /\ [][CallNext]_vars

\* ------------------------------------------------------------------------
\* Claims about Parse, Validate and Render
\* ------------------------------------------------------------------------

\* C1: for every input, Validate returns no error if and only if Parse
\* returns no error (the two parsers accept the same inputs).
C1_ValidateAgreesWithParse ==
    (vres # "none" /\ p0.status # "none") => ((vres = "ok") <=> (p0.status = "ok"))

\* C3: for every input Parse accepts, Render(Parse(X)) is accepted by Parse
\* and parses to a tree deep-equal to Parse(X).
C3_RenderParseRoundTrip ==
    (p0.status = "ok" /\ input # <<>> /\ p1.status # "none")
        => (p1.status = "ok" /\ p1.node = p0.node)

\* the text a child element carries
ChildTextOf(node) ==
    IF node.t = "lit" THEN node.v
    ELSE IF node.t = "obj" /\ TextKey \in DOMAIN node.props THEN node.props[TextKey].v
    ELSE <<"no text">>

\* the positions of name nm in a sequence of child names, in document order
RECURSIVE PositionsOf(_, _, _)
PositionsOf(names, nm, i) ==
    IF i > Len(names) THEN <<>>
    ELSE (IF names[i] = nm THEN <<i>> ELSE <<>>) \o PositionsOf(names, nm, i + 1)

\* the property a parent must hold for child name nm occurring at positions
\* pos: nothing, the single child, or an Array of the children in order
KeyedByName(props, nm, pos) ==
    CASE Len(pos) = 0 -> nm \notin DOMAIN props
      [] Len(pos) = 1 -> /\ nm \in DOMAIN props
                         /\ ChildTextOf(props[nm]) = <<DigitOf(pos[1])>>
      [] OTHER -> /\ nm \in DOMAIN props
                  /\ props[nm].t = "arr"
                  /\ Len(props[nm].elems) = Len(pos)
                  /\ \A j \in 1..Len(pos) : ChildTextOf(props[nm].elems[j]) = <<DigitOf(pos[j])>>

\* C6: Parse keys each child element under its own tag name; a name that
\* occurs n >= 2 times holds an Array of the n children in document order, a
\* name that occurs once holds the single child.
C6_ChildrenKeyedByTagName ==
    \A names \in ChildNameSeqs :
        (input = ChildDoc(names) /\ p0.status # "none")
            => /\ p0.status = "ok"
               /\ \A nm \in ChildNames :
                      KeyedByName(p0.node.props, nm, PositionsOf(names, nm, 1))

\* s occurs somewhere in text
Contains(text, s) == FindFrom(text, 0, s) # -1

\* C7: parsing an element whose content is a CDATA section stores the raw
\* content under #cdata, and rendering that tree emits it again inside
\* <![CDATA[ ... ]]> unescaped.
C7_CDataFidelity ==
    \A c \in CDataContents :
        input = CDataDoc(c)
            => /\ p0.status # "none"
                    => /\ p0.status = "ok"
                       /\ CDataKey \in DOMAIN p0.node.props
                       /\ p0.node.props[CDataKey].v = c
               /\ r1.done => Contains(r1.text, sCDataOpen \o c \o sCDataClose)

\* C9: a tree that has been through one render/parse cycle is a fixed point
\* of further cycles: with u = Parse(Render(t)), Parse(Render(u)) equals u.
C9_RenderParseIdempotent ==
    (p1.status = "ok" /\ p2.status # "none") => (p2.status = "ok" /\ p2.node = p1.node)

\* well-formed root elements
Roots == { <<"<", "a", "/", ">">>, <<"<", "a", ">", "<", "/", "a", ">">>,
           <<"<", "a", ">", "x", "<", "/", "a", ">">> }

RECURSIVE OnlyWhitespaceAndComments(_)
\* text is made of whitespace and complete comments only
OnlyWhitespaceAndComments(text) ==
    IF text = <<>> THEN TRUE
    ELSE IF Head(text) \in WhitespaceChars THEN OnlyWhitespaceAndComments(Tail(text))
    ELSE IF HasPrefixAt(text, 0, sCommentOpen) /\ FindFrom(text, 4, sCommentClose) # -1
         THEN OnlyWhitespaceAndComments(
                  SubSeq(text, FindFrom(text, 4, sCommentClose) + 4, Len(text)))
    ELSE FALSE

\* what may follow a root in the inputs of the model
Trailers == FragInputs(MaxFrags - 1)

\* C10: a well-formed root element followed by anything other than
\* whitespace and complete comments makes Parse and Validate return an
\* error, and Parse returns no tree.
C10_TrailingContentRejected ==
    \A root \in Roots : \A trail \in Trailers :
        (input = root \o trail /\ ~OnlyWhitespaceAndComments(trail))
            => /\ vres # "none" => vres = "error"
               /\ p0.status # "none" => (p0.status = "error" /\ p0.node = NilNode)

\* ------------------------------------------------------------------------
\* Claims about the encoder cache
\* ------------------------------------------------------------------------

\* C2: under every interleaving of concurrent Marshal calls, an encoder a
\* goroutine obtains from the cache is fully constructed when the goroutine
\* invokes it: no goroutine runs a forwarding placeholder whose real encoder
\* has not been assigned.
C2_NoUnassignedPlaceholderRuns == \A g \in Goroutines : gstate[g] # "panic"

\* C5: building the encoder of any type, self-referential ones included,
\* terminates: the nesting of xmlEncoderForType calls never exceeds the
\* number of types, and every call the goroutines have entered returns: from
\* some point on no call is active (unless a panic ended the program
\* meanwhile).
C5_BuildTerminates ==
    /\ [](\A g \in Goroutines : Len(stack[g]) <= Cardinality(TypeNames))
    /\ <>[](Crashed \/ \A g \in Goroutines : stack[g] = <<>>)

\* C5 witness: a goroutine has built the encoder of the self-referential
\* type Node, whose nested requests for Node returned the placeholder, and
\* holds it with no call of xmlEncoderForType left active
C5_Witness ==
    \E g \in Goroutines :
        /\ gstate[g] = "encode"
        /\ stack[g] = <<>>
        /\ genc[g] = BuiltEnc("Node", <<BuiltEnc("string", <<>>),
                                        BuiltEnc("*Node", <<PlaceholderEnc("Node")>>),
                                        BuiltEnc("[]Node", <<PlaceholderEnc("Node")>>)>>)

\* ------------------------------------------------------------------------
\* Claims about Marshal and Unmarshal
\* ------------------------------------------------------------------------

\* C4: for every struct value v with string fields (child elements,
\* attributes, character data, with or without omitempty), nested structs
\* and slices, Unmarshal(Marshal(v), &v2) returns no error and v2 equals v.
C4_MarshalUnmarshalRoundTrip ==
    mout.status # "none" => (mout.status = "ok" /\ mout.val = mval.v)

\* the entities appendEscapeXML writes
Entities == {eAmp, eLt, eGt, eNum34, eNum39}

\* no <, >, " or ' occurs in text, and every & starts an entity
NoRawSpecials(text) ==
    \A i \in 0..(Len(text) - 1) :
        /\ At(text, i) \notin {"<", ">", "\"", "'"}
        /\ At(text, i) = "&" => \E e \in Entities : HasPrefixAt(text, i, e)

\* the bytes Marshal wrote between <Elem><v> and </v></Elem>
ElemBody(text) == SubSeq(text, 10, Len(text) - 11)

\* C8: marshaling a struct whose string field holds s emits every <, >, &,
\* " and ' of s in escaped form, and Unmarshal of that output into the same
\* struct type yields exactly s.
C8_EscapedStringRoundTrip ==
    mval.type = ElemType
        => /\ mxml.done => NoRawSpecials(ElemBody(mxml.text))
           /\ mout.status # "none" => (mout.status = "ok" /\ mout.val = mval.v)

\* ------------------------------------------------------------------------
\* Claims about the errors of the parsers
\* ------------------------------------------------------------------------

\* C11: Validate rejects every input that contains an unterminated comment,
\* CDATA section, XML declaration or attribute value, wherever the construct
\* starts: before the root element, inside an element or after it.
C11_UnterminatedRejected ==
    (input \in UnterminatedDocs /\ vres # "none") => vres = "error"

\* the error names the two tags of a mismatch
NamesBothTags(err, m) ==
    /\ err.msg = "mismatched tags"
    /\ {err.a, err.b} = {m.opening, m.closing}

\* C12: when an end tag names another element than the start tag it closes,
\* Parse and the fast parser both fail, and the error of each contains the
\* opening name and the closing name.
C12_MismatchedTagsNamed ==
    input \in MismatchDocs =>
        /\ p0.status # "none" =>
              p0.status = "error" /\ NamesBothTags(p0.err, MismatchOf(input))
        /\ f0.status # "none" =>
              f0.status = "error" /\ NamesBothTags(f0.err, MismatchOf(input))

\* a property for each attribute of the list and no other: "@" + name, holding
\* the value wrapped as a literal node (ast) or as a string (fast)
AttrsOnly(l, ast) ==
    [ key \in { <<"@">> \o l[i].name : i \in 1..Len(l) } |->
        LET a == l[CHOOSE i \in 1..Len(l) : <<"@">> \o l[i].name = key]
        IN IF ast THEN NewLiteralNode(a.value) ELSE NStr(a.value) ]

\* C13: for every element name and attribute list, <r .../> and <r ...></r>
\* parse, in Parse and in the fast parser, to the same result: an object
\* whose only properties are the attributes (none when there are none).
C13_SelfClosingEqualsEmpty ==
    input \in FormDocs =>
        /\ p0.status # "none" =>
              /\ p0.status = "ok"
              /\ p0.node = NewObjectNode(AttrsOnly(FormOf(input).attrs, TRUE))
        /\ f0.status # "none" =>
              /\ f0.status = "ok"
              /\ f0.val = NMap(AttrsOnly(FormOf(input).attrs, FALSE))

\* both parsers have parsed an empty form <r ...></r> with two attributes
C13_Witness ==
    /\ input \in FormDocs
    /\ FormOf(input).form = "empty"
    /\ Len(FormOf(input).attrs) = 2
    /\ p0.status = "ok"
    /\ f0.status = "ok"

\* ------------------------------------------------------------------------
\* Claims about Marshal
\* ------------------------------------------------------------------------

\* how many times s occurs in data
Occurrences(data, s) ==
    Cardinality({ i \in 0..(Len(data) - Len(s)) : HasPrefixAt(data, i, s) })

\* the fields of struct type t that are slices and not tagged omitempty
PlainSliceFields(t) ==
    { i \in 1..Len(t.fields) :
        t.fields[i].type.kind = "slice" /\ ~getFieldInfo(t.fields[i]).omitEmpty }

\* C14: Marshal of a struct with a slice field that is not tagged omitempty
\* writes exactly one self-closing element named after the field when the
\* slice is nil, and no element of that name when the slice is empty but not
\* nil.
C14_NilSliceVersusEmptySlice ==
    (mxml.done /\ mval.type.kind = "struct") =>
        \A i \in PlainSliceFields(mval.type) :
            LET name == getFieldInfo(mval.type.fields[i]).name
                open == <<"<">> \o name
            IN /\ mval.v.f[i].nil =>
                    /\ Occurrences(mxml.text, open) = 1
                    /\ Occurrences(mxml.text, open \o sSelfClose) = 1
               /\ (~mval.v.f[i].nil /\ mval.v.f[i].f = <<>>) =>
                    Occurrences(mxml.text, open) = 0

\* Marshal has written a struct whose slice field is nil
C14_Witness ==
    /\ mxml.done
    /\ mval.type = OuterType
    /\ mval.v.f[2].nil
    /\ Occurrences(mxml.text, <<"<", "t", "a", "g", "/", ">">>) = 1

\* the objects one pointer step away from the objects of S
Succ(h, S) ==
    { p \in Addrs : \E a \in S : \E i \in 1..Len(ChildrenOf(h, a)) : ChildrenOf(h, a)[i].ptr = p }

RECURSIVE ReachFrom(_, _, _)
\* the objects reached from S in one step or more, n steps at most
ReachFrom(h, S, n) ==
    IF n = 0 THEN {} ELSE Succ(h, S) \cup ReachFrom(h, Succ(h, S), n - 1)

\* the value at root reaches itself again: some object it reaches, or root
\* itself, lies on a cycle of pointers
Cyclic(h, root) ==
    \E a \in {root} \cup ReachFrom(h, {root}, MaxObjects) : a \in ReachFrom(h, {a}, MaxObjects)

\* C15: Marshal of a cyclic data structure terminates and returns an error.
C15_CyclicMarshalReturnsError ==
    (heap # <<>> /\ Cyclic(heap, 1) /\ eout \notin {"none", "running"}) => eout = "error"

\* ------------------------------------------------------------------------
\* Claims about RenderIndent
\* ------------------------------------------------------------------------

\* the lines of a text that ends every line with a newline
LinesOf(text) ==
    LET parts == Split(text, "\n")
    IN IF parts[Len(parts)] = <<>> THEN SubSeq(parts, 1, Len(parts) - 1) ELSE parts

RECURSIVE DepthChange(_, _)
\* elements left open by the tags of a line from offset i on, minus the
\* elements they close; a CDATA section is skipped
DepthChange(line, i) ==
    LET lt == FindFrom(line, i, <<"<">>)
        AfterCData(e) == IF e = -1 THEN 0 ELSE DepthChange(line, e + Len(sCDataClose))
        AfterTag(gt, step) == IF gt = -1 THEN step ELSE step + DepthChange(line, gt + 1)
        OpenStep(gt) == IF gt > 0 /\ At(line, gt - 1) = "/" THEN 0 ELSE 1
    IN IF lt = -1 THEN 0
       ELSE IF HasPrefixAt(line, lt, sCDataOpen) THEN AfterCData(FindFrom(line, lt, sCDataClose))
       ELSE IF HasPrefixAt(line, lt, sEndTagOpen) THEN AfterTag(FindFrom(line, lt, <<">">>), -1)
       ELSE AfterTag(FindFrom(line, lt, <<">">>), OpenStep(FindFrom(line, lt, <<">">>)))

\* nesting depth of the element a line opens or closes, when cur elements
\* are open before the line
DepthOfLine(line, cur) ==
    IF HasPrefixAt(line, FindFrom(line, 0, <<"<">>), sEndTagOpen) THEN cur - 1 ELSE cur

RECURSIVE LinesIndented(_, _, _, _, _)
\* every line from the i-th on starts with prefix, indent repeated as often
\* as its element is deep, and then the tag
LinesIndented(lines, i, cur, prefix, indent) ==
    IF i > Len(lines) THEN TRUE
    ELSE /\ FindFrom(lines[i], 0, <<"<">>) # -1
         /\ Slice(lines[i], 0, FindFrom(lines[i], 0, <<"<">>))
               = prefix \o Repeat(indent, DepthOfLine(lines[i], cur))
         /\ LinesIndented(lines, i + 1, cur + DepthChange(lines[i], 0), prefix, indent)

\* C16: every line of RenderIndent(node, prefix, indent) begins with prefix
\* followed by indent repeated d times, d being the nesting depth of the
\* element the line opens or closes (0 for the root element).
C16_LinesCarryPrefixAndIndent ==
    ri.done => LinesIndented(LinesOf(ri.text), 1, 0, ri.prefix, ri.indent)

\* ------------------------------------------------------------------------
\* Claims about concurrent calls
\* ------------------------------------------------------------------------

\* what a call returns when it runs alone
AloneResult(op, d) ==
    IF op \in {"Parse", "ParseReader"}
    THEN CallResult(Parse(d).status, Parse(d).err,
                    IF Parse(d).status = "ok" THEN Parse(d).node ELSE NilNode)
    ELSE CallResult(IF Validate(d) THEN "ok" ELSE "error", fast_Parse(d).err, NilNode)

Building(g) == \E i \in 1..Len(stack[g]) : stack[g][i].pc = "build"

\* C18: the build of a routine that is not cached yet is serialized: the
\* builder holds the cache mutex for the whole build, so no two goroutines
\* are ever building at the same time.
C18_BuildUnderMutex ==
    /\ \A g \in Goroutines : Building(g) => mu = g
    /\ \A g, h \in Goroutines : (Building(g) /\ Building(h)) => g = h

\* a call of xmlEncoderForType(t) has published its entry and not returned
InBuild(t) ==
    \E g \in Goroutines : \E i \in 1..Len(stack[g]) :
        stack[g][i].t = t /\ stack[g][i].pc \in {"build", "replace"}

\* C19: cache entries are created once per type and kept: under every
\* interleaving the routine of a type is built at most once, and a type that
\* had an entry in a published map (its build is under way or done) has an
\* entry in every later map.
C19_BuiltOnceAndKept ==
    /\ \A t \in TypeNames : builds[t] <= 1
    /\ \A t \in TypeNames : (InBuild(t) \/ realEnc[t] # NoEnc) => cache[t] # NoEnc

\* ------------------------------------------------------------------------
\* Claims about attribute values
\* ------------------------------------------------------------------------

\* C20: for every quoted attribute value the fast parser stores under @name
\* the string the AST parser stores: the value without its quotes and with
\* the five predefined entities replaced by the characters they stand for.
C20_FastAttrEqualsAstAttr ==
    (input \in QuotedAttrDocs /\ p0.status # "none" /\ f0.status # "none") =>
        /\ p0.status = "ok" /\ f0.status = "ok"
        /\ p0.node.props[AttrKey].v = QuotedAttrOf(input).literal
        /\ f0.val.m[AttrKey].s = p0.node.props[AttrKey].v

\* ------------------------------------------------------------------------
\* Claims about comments and repeated children
\* ------------------------------------------------------------------------

\* C21: for every well-formed document with comments inside element content
\* Parse succeeds and returns the tree of the document without the comments:
\* a comment produces no node and nothing after it is skipped with it.
C21_CommentsLeaveNoTrace ==
    (input \in CommentDocs /\ p0.status # "none") =>
        /\ p0.status = "ok"
        /\ Parse(CommentOf(input).stripped).status = "ok"
        /\ p0.node = Parse(CommentOf(input).stripped).node

\* the value the fast parser builds for the child <c>i</c>
FastChild(i) == NMap(Put(EmptyProps, TextKey, NStr(<<DigitOf(i)>>)))

\* what the map of the parent must hold for child name nm occurring at
\* positions pos: nothing, the child's value, or the sequence of the values
\* in encounter order
FastKeyedByName(m, nm, pos) ==
    CASE Len(pos) = 0 -> nm \notin DOMAIN m
      [] Len(pos) = 1 -> nm \in DOMAIN m /\ m[nm] = FastChild(pos[1])
      [] OTHER -> /\ nm \in DOMAIN m
                  /\ m[nm] = NSlice([j \in 1..Len(pos) |-> FastChild(pos[j])])

\* C22: in the value the fast parser builds for an element, a child tag name
\* seen once maps to that child's value and a name seen k >= 2 times maps to
\* the sequence of the k values in encounter order, whatever text, comments,
\* CDATA or other children stand between the occurrences.
C22_FastChildrenPromoted ==
    (input \in RepeatDocs /\ f0.status # "none") =>
        /\ f0.status = "ok"
        /\ \A nm \in ChildNames :
               FastKeyedByName(f0.val.m, nm, PositionsOf(RepeatOf(input).names, nm, 1))

\* the fast parser has parsed a child name that occurs three times, with
\* comments between the occurrences
C22_Witness ==
    /\ input \in RepeatDocs
    /\ RepeatOf(input).names = <<<<"c">>, <<"c">>, <<"c">>>>
    /\ RepeatOf(input).sep = sCommentOpen \o <<"c">> \o sCommentClose
    /\ f0.status = "ok"
    /\ Len(f0.val.m[<<"c">>].elems) = 3

\* ------------------------------------------------------------------------
\* Claims about the fast parser's cursor
\* ------------------------------------------------------------------------

\* the stepped run agrees with fast_Parse on the verdict, and on the final
\* cursor of a successful run
CursorAgrees ==
    (cursor.phase \in {"value", "error"}) =>
        /\ (cursor.phase = "value") = fast_Parse(input).ok
        /\ (cursor.phase = "value") => cursor.pos = fast_Parse(input).pos

\* C23: at every step of the fast parser the cursor is within 0..len(data),
\* every index read is below len(data), and the run ends in a value or an
\* error, never in a panic.
C23_CursorInBounds ==
    (cursor.phase # "idle") =>
        /\ 0 <= cursor.pos
        /\ cursor.pos <= Len(input)
        /\ cursor.hi < Len(input)
        /\ cursor.phase # "panic"

\* the search for the end of an unterminated comment has read the last byte
\* of an input that ends in "--" and stopped two bytes before the end
C23_Witness ==
    /\ cursor.kind = "iterate"
    /\ Len(input) >= 6
    /\ Slice(input, Len(input) - 2, Len(input)) = <<"-", "-">>
    /\ cursor.hi = Len(input) - 1
    /\ cursor.pos = Len(input) - 2

\* most steps a run on n bytes can take: every step but the start of Parse,
\* the exit of skipComments and the last one consumes a byte
StepBound(n) == n + 3

\* C24: every iteration of a loop of the fast parser that does not return,
\* and every descent into an element, strictly advances the cursor, and the
\* number of steps of a run is bounded by the input length.
C24_EveryIterationAdvances ==
    (cursor.phase # "idle") =>
        /\ (cursor.kind \in {"iterate", "descend"}) => cursor.pos > cursor.prev
        /\ cursor.steps <= StepBound(Len(input))

\* the content loop has entered a child element
C24_Witness ==
    /\ cursor.kind = "descend"
    /\ Len(cursor.frames) = 2
    /\ cursor.pos > cursor.prev

\* ------------------------------------------------------------------------
\* Claims about struct fields in Marshal
\* ------------------------------------------------------------------------

\* the kinds whose zero value the omitempty rule names
OmitKinds == {"string", "int", "bool", "slice"}

\* the one field of a one-field struct is tagged omitempty, not skipped, and
\* holds the empty value of its kind
EmptyOmitField ==
    /\ mval.type \in FieldTypes
    /\ getFieldInfo(mval.type.fields[1]).omitEmpty
    /\ ~getFieldInfo(mval.type.fields[1]).skip
    /\ mval.type.fields[1].type.kind \in OmitKinds
    /\ isEmptyValue(mval.v.f[1])

\* C25: a field tagged omitempty that holds the empty value of its kind
\* contributes nothing to the output, whatever its role: the struct that has
\* no other field marshals to the empty element.
C25_OmitEmptyWritesNothing ==
    (mxml.done /\ EmptyOmitField) =>
        /\ ~merr.set
        /\ mxml.text = emptyElement(mval.type.name)

\* a value of the unsupported kind is held by the field, or by an element of
\* the slice the field holds, of a one-field struct whose field is not skipped
HoldsUnsupported ==
    /\ mval.type \in FieldTypes
    /\ ~getFieldInfo(mval.type.fields[1]).skip
    /\ \/ mval.type.fields[1].type.kind = "chan"
       \/ /\ mval.type.fields[1].type.kind = "slice"
          /\ mval.type.fields[1].type.elem[1].kind = "chan"
          /\ Len(mval.v.f[1].f) > 0

\* C26: Marshal of a value that holds a channel in a field that is not
\* skipped, or in a slice element, returns an error that names the channel
\* type, and no bytes.
C26_UnsupportedKindIsError ==
    (mxml.done /\ HoldsUnsupported) =>
        /\ merr.set
        /\ merr.type = TChan.name
        /\ mxml.text = <<>>

\* ------------------------------------------------------------------------
\* Claims about the buffer pools
\* ------------------------------------------------------------------------

\* C27: after any sequence of Render, RenderIndent and Marshal calls every
\* buffer retained by the render pool or by the marshal pool has a capacity
\* of at most 64 KiB.
C27_PooledBuffersBounded ==
    \A c \in pools.render \cup pools.marshal : c <= MaxPooledCap

\* ------------------------------------------------------------------------
\* Claims about the order of rendered attributes and children
\* ------------------------------------------------------------------------

RECURSIVE AttrsInOrder(_, _)
\* the attributes present, written in ascending order of name
AttrsInOrder(present, i) ==
    IF i > Len(SortedAttrNames) THEN <<>>
    ELSE (IF i \in present
          THEN <<" ">> \o SortedAttrNames[i] \o <<"=", "\"", "v", "\"">>
          ELSE <<>>) \o AttrsInOrder(present, i + 1)

RECURSIVE MembersInOrder(_, _, _)
\* the members of an Array child as consecutive elements, in array order
MembersInOrder(key, elems, j) ==
    IF j > Len(elems) THEN <<>>
    ELSE OpenTag(key) \o elems[j].v \o CloseTag(key) \o MembersInOrder(key, elems, j + 1)

RECURSIVE ChildrenInOrder(_, _)
\* the children present, written in ascending order of key
ChildrenInOrder(ch, i) ==
    IF i > Len(SortedChildKeys) THEN <<>>
    ELSE (CASE ch[i].t = "nil" -> <<>>
            [] ch[i].t = "lit" -> MembersInOrder(SortedChildKeys[i], <<ch[i]>>, 1)
            [] OTHER -> MembersInOrder(SortedChildKeys[i], ch[i].elems, 1))
         \o ChildrenInOrder(ch, i + 1)

\* the bytes of a tree of SortCases with everything in ascending order
InOrder(c) ==
    <<"<">> \o rootName \o AttrsInOrder(c.attrs, 1)
        \o (IF ChildrenInOrder(c.children, 1) = <<>> THEN sSelfClose
            ELSE <<">">> \o ChildrenInOrder(c.children, 1) \o CloseTag(rootName))

\* C28: Render writes the attributes of an element in ascending order of
\* name, its children in ascending order of key, and the members of an Array
\* child as consecutive siblings in array order.
C28_RenderSortsKeys ==
    (r1.done /\ p0.node \in SortTrees) => r1.text = InOrder(SortOf(p0.node))

\* a tree with three attributes, an Array child and two more children has
\* been rendered
C28_Witness ==
    /\ r1.done
    /\ p0.node \in SortTrees
    /\ SortOf(p0.node).attrs = {1, 2, 3}
    /\ SortOf(p0.node).children[1].t = "arr"
    /\ SortOf(p0.node).children[2].t = "lit"
    /\ SortOf(p0.node).children[3].t = "arr"

\* ------------------------------------------------------------------------
\* Name and text matchers: byte scan against character scan
\* ------------------------------------------------------------------------

\* both kinds of stream have been given to the same matcher at the same offset
BothRan == matched.byte # NoRun /\ matched.rune # NoRun

C30_MalformedInputLeavesTarget ==
    (mout.status # "none" /\ input \in TargetDocs /\ ~IsWellFormed(input))
        => (mout.status = "error" /\ mout.val = mval.v)

\* the part of it the parser upholds: an input the fast parser rejects
\* leaves the target as it was
RejectedInputLeavesTarget ==
    (mout.status # "none" /\ input \in TargetDocs /\ ~fast_Parse(input).ok)
        => (mout.status = "error" /\ mout.val = mval.v)

====
